---- MODULE Spec2Model ----
(***************************************************************************)
(* Voice bridge of the appliance diagnostic assistant: the process-wide    *)
(* Session Store (app/voice/session_manager.py), the carrier webhooks      *)
(* (app/api/voice.py), the media WebSocket endpoint (app/main.py) and the  *)
(* realtime bridge with its two pumps (app/voice/realtime_handler.py).     *)
(*                                                                         *)
(* ConversationState objects are Python objects shared by reference: the   *)
(* store maps a call id to an object and a bridge keeps its own reference  *)
(* to the object it resolved at start.  The model therefore keeps a heap   *)
(* of objects and lets the store and the bridges hold heap addresses.      *)
(*                                                                         *)
(* All handlers are coroutines on one event loop.  An action is the code   *)
(* that runs between two points where a coroutine really suspends (socket  *)
(* reads and writes, the dial of the model WS); the store methods are      *)
(* `async def` but never suspend, so they run inside the calling action.   *)
(* The one exception is the end of a media stream, which takes two steps:  *)
(* RealtimeHandler._cleanup, then the finally of websocket_media_stream;   *)
(* nothing suspends between them, so no other handler runs in between.     *)
(***************************************************************************)
EXTENDS Integers, Sequences, FiniteSets, TLC

----------------------------------------------------------------------------
(* Bounds of the model                                                     *)

MaxObjs == 2        \* ConversationState objects ever created
MaxTime == 1        \* the wall clock stops advancing here
MaxTurns == 1       \* turn_count up to which context/transition requests are issued
MaxUplink == 2      \* frames the uplink pump of one bridge reads
MaxDownlink == 3    \* events the downlink pump of one bridge reads
MaxPairEvents == 1  \* events each of two concurrent bridges reads
MaxAppointments == 3  \* rows of the appointments table

----------------------------------------------------------------------------
(* Inputs                                                                  *)

None == "None"

CallIds == {"CA1", "CA2"}
Phones == {"+15551234567"}
Host == "host"

TerminalStatuses == {"completed", "busy", "failed", "no-answer", "canceled"}
CallStatuses == TerminalStatuses \cup {"in-progress"}

Phases == {"greeting", "identify_appliance", "gather_symptoms", "diagnostic",
           "troubleshooting", "scheduling", "confirmation", "image_capture",
           "closing"}
TransitionTargets == {"diagnostic"}

StreamSids == {"MZ1"}
MediaPayloads == {"AAA=", "BBB="}
Deltas == {"", "QUFB", "QkJC"}
Transcripts == {"my washer leaks"}

\* request bodies of POST /voice/session/{call_sid}/context: the keys present
ContextBodies == {{}, {"appliance_type", "symptoms", "zip_code"}}
BodyAppliance == "washer"
BodySymptom == "leaking"
BodyZip == "90210"

Range(s) == {s[i] : i \in DOMAIN s}

----------------------------------------------------------------------------
(* ConversationState                                                       *)

NewConversationState(call_sid, customer_phone, customer_id, started_at, t) ==
    [call_sid |-> call_sid,
     customer_phone |-> customer_phone,
     started_at |-> started_at,
     last_interaction |-> t,
     phase |-> "greeting",
     turn_count |-> 0,
     appliance_type |-> None,
     additional_symptoms |-> <<>>,
     customer_zip_code |-> None,
     customer_name |-> None,
     customer_email |-> None,
     customer_address |-> None,
     customer_id |-> customer_id,
     key_facts |-> <<>>,
     image_upload_requested |-> FALSE,
     image_upload_token |-> None,
     appointment_id |-> 0,
     appointment_confirmation |-> None]

update_interaction(s, t) ==
    [s EXCEPT !.last_interaction = t, !.turn_count = @ + 1]

\* variant: a fact list that takes every fact it is given
add_fact_always(s, fact) ==
    [s EXCEPT !.key_facts = Append(@, fact)]

add_fact(s, fact) ==
    IF fact \in Range(s.key_facts) THEN s
    ELSE [s EXCEPT !.key_facts = Append(@, fact)]

----------------------------------------------------------------------------
(* Customer records (app/services/customer_service.py).  The table is a    *)
(* sequence of rows; a row's id is its position.                           *)

NewCustomer(phone) ==
    [phone |-> phone, first_name |-> None, last_name |-> None,
     email |-> None, zip_code |-> None, address_line1 |-> None]

CustomerIdByPhone(cust, phone) ==
    IF \E i \in DOMAIN cust : cust[i].phone = phone
    THEN CHOOSE i \in DOMAIN cust :
            /\ cust[i].phone = phone
            /\ \A j \in DOMAIN cust : cust[j].phone = phone => i <= j
    ELSE 0

\* variant: a lookup that adds a record on every call
get_or_create_customer_always(cust, phone) ==
    [customers |-> Append(cust, NewCustomer(phone)), id |-> Len(cust) + 1]

get_or_create_customer(cust, phone) ==
    IF CustomerIdByPhone(cust, phone) # 0
    THEN [customers |-> cust, id |-> CustomerIdByPhone(cust, phone)]
    ELSE [customers |-> Append(cust, NewCustomer(phone)), id |-> Len(cust) + 1]

\* update_customer(customer_id, **kwargs): kwargs is a function from field
\* names to values; a value of None is skipped.
update_customer(cust, customer_id, kwargs) ==
    IF customer_id \notin DOMAIN cust THEN cust
    ELSE [cust EXCEPT ![customer_id] =
            [f \in DOMAIN @ |->
                IF f \in DOMAIN kwargs /\ f # "phone" /\ kwargs[f] # None
                THEN kwargs[f] ELSE @[f]]]

----------------------------------------------------------------------------
(* Session Store (SessionManager).  `st` is the dict _sessions: a call id  *)
(* maps to the heap address of its ConversationState, 0 when absent.       *)

\* variant: a create that keeps the entry a call id already has
create_session_setdefault(hp, st, call_sid, customer_phone, customer_id, t0, t1) ==
    [heap |-> Append(hp, NewConversationState(call_sid, customer_phone,
                                               customer_id, t0, t1)),
     sessions |-> IF st[call_sid] # 0 THEN st
                  ELSE [st EXCEPT ![call_sid] = Len(hp) + 1],
     ret |-> Len(hp) + 1]

create_session(hp, st, call_sid, customer_phone, customer_id, t0, t1) ==
    [heap |-> Append(hp, NewConversationState(call_sid, customer_phone,
                                               customer_id, t0, t1)),
     sessions |-> [st EXCEPT ![call_sid] = Len(hp) + 1],
     ret |-> Len(hp) + 1]

get_session(st, call_sid) == st[call_sid]

\* variant: an update that counts the turn twice
update_session_twice(hp, st, o, t) ==
    [heap |-> [hp EXCEPT ![o] = update_interaction(update_interaction(@, t), t)],
     sessions |-> [st EXCEPT ![hp[o].call_sid] = o]]

update_session(hp, st, o, t) ==
    [heap |-> [hp EXCEPT ![o] = update_interaction(@, t)],
     sessions |-> [st EXCEPT ![hp[o].call_sid] = o]]

\* variant: an end that reads the state and leaves it in the store
end_session_get(st, call_sid) ==
    [sessions |-> st, ret |-> st[call_sid]]

\* variant: an end that empties the store
end_session_clears(st, call_sid) ==
    [sessions |-> [c \in DOMAIN st |-> 0], ret |-> st[call_sid]]

end_session(st, call_sid) ==
    [sessions |-> [st EXCEPT ![call_sid] = 0], ret |-> st[call_sid]]

\* dict.copy(): a new dict that maps the same call ids to the same objects
get_active_sessions(st) == [c \in DOMAIN st |-> st[c]]

transition_phase(hp, st, call_sid, new_phase, t) ==
    IF get_session(st, call_sid) # 0
    THEN LET o == get_session(st, call_sid)
             u == update_session([hp EXCEPT ![o].phase = new_phase], st, o, t)
         IN [heap |-> u.heap, sessions |-> u.sessions, ret |-> o]
    ELSE [heap |-> hp, sessions |-> st, ret |-> 0]

\* A ConversationState that is referred to no more is reclaimed; its
\* address is not used again.
Freed(call_sid) == NewConversationState(call_sid, None, 0, 0, 0)

----------------------------------------------------------------------------
(* Scheduling tables (app/models, app/services/scheduling_service.py).     *)
(* The technicians with their service areas and specialties and the        *)
(* calendar of the time slots are fixed; the flags of a slot and the       *)
(* appointments change.  A row's id is its position.                       *)

Technicians ==
    <<[is_active |-> TRUE, zip_codes |-> {"90210"}, specialties |-> {"washer"}],
      [is_active |-> FALSE, zip_codes |-> {"90210"}, specialties |-> {"washer"}],
      [is_active |-> TRUE, zip_codes |-> {"10001"},
       specialties |-> {"washer", "refrigerator"}]>>

\* technician, date (days from today) and start hour of the time slots
SlotCalendar ==
    <<[technician_id |-> 1, date |-> 1, start_time |-> 9],
      [technician_id |-> 1, date |-> 2, start_time |-> 13],
      [technician_id |-> 1, date |-> 1, start_time |-> 13],
      [technician_id |-> 2, date |-> 1, start_time |-> 9],
      [technician_id |-> 3, date |-> 3, start_time |-> 9],
      [technician_id |-> 1, date |-> 30, start_time |-> 9],
      [technician_id |-> 1, date |-> 1, start_time |-> 15]>>

SlotIds == DOMAIN SlotCalendar

\* the tables at start: slot 3 is blocked, slot 7 is taken by an appointment
\* that has been completed
SeedDb ==
    [slots |-> [i \in SlotIds |->
                  [id |-> i, is_available |-> i # 7, is_blocked |-> i = 3]],
     appointments |-> <<[id |-> 1, time_slot_id |-> 7, customer_id |-> 1,
                         status |-> "completed"]>>]

\* variant: a search that does not look at Technician.is_active
get_available_slots_any_technician(d, zip_code, appliance_type, time_preference) ==
    {i \in SlotIds :
        /\ d.slots[i].is_available /\ ~d.slots[i].is_blocked
        /\ SlotCalendar[i].date >= 1 /\ SlotCalendar[i].date <= 15
        /\ zip_code \in Technicians[SlotCalendar[i].technician_id].zip_codes
        /\ appliance_type \in Technicians[SlotCalendar[i].technician_id].specialties
        /\ time_preference = "morning" => SlotCalendar[i].start_time < 12
        /\ time_preference = "afternoon" => SlotCalendar[i].start_time >= 12}

\* SchedulingService.get_available_slots with the default date range
\* (tomorrow and the 14 days after it): the ids of the slots returned
get_available_slots(d, zip_code, appliance_type, time_preference) ==
    {i \in SlotIds :
        /\ d.slots[i].is_available /\ ~d.slots[i].is_blocked
        /\ SlotCalendar[i].date >= 1 /\ SlotCalendar[i].date <= 15
        /\ zip_code \in Technicians[SlotCalendar[i].technician_id].zip_codes
        /\ appliance_type \in Technicians[SlotCalendar[i].technician_id].specialties
        /\ Technicians[SlotCalendar[i].technician_id].is_active
        /\ time_preference = "morning" => SlotCalendar[i].start_time < 12
        /\ time_preference = "afternoon" => SlotCalendar[i].start_time >= 12}

\* variant: a cancel that does not look at the status
cancel_appointment_any(d, appointment_id) ==
    IF appointment_id \notin DOMAIN d.appointments
    THEN [db |-> d, success |-> FALSE, error |-> "Appointment not found"]
    ELSE [db |-> [slots |-> [d.slots EXCEPT
                      ![d.appointments[appointment_id].time_slot_id].is_available = TRUE],
                  appointments |-> [d.appointments EXCEPT
                      ![appointment_id].status = "cancelled"]],
          success |-> TRUE, error |-> None]

\* variant: a cancel that leaves the slot taken
cancel_appointment_keeps_slot(d, appointment_id) ==
    IF appointment_id \notin DOMAIN d.appointments
    THEN [db |-> d, success |-> FALSE, error |-> "Appointment not found"]
    ELSE IF d.appointments[appointment_id].status \in {"completed", "cancelled"}
    THEN [db |-> d, success |-> FALSE,
          error |-> "Cannot cancel appointment with status: "
                        \o d.appointments[appointment_id].status]
    ELSE [db |-> [d EXCEPT !.appointments[appointment_id].status = "cancelled"],
          success |-> TRUE, error |-> None]

\* SchedulingService.cancel_appointment
cancel_appointment(d, appointment_id) ==
    IF appointment_id \notin DOMAIN d.appointments
    THEN [db |-> d, success |-> FALSE, error |-> "Appointment not found"]
    ELSE IF d.appointments[appointment_id].status \in {"completed", "cancelled"}
    THEN [db |-> d, success |-> FALSE,
          error |-> "Cannot cancel appointment with status: "
                        \o d.appointments[appointment_id].status]
    ELSE [db |-> [slots |-> [d.slots EXCEPT
                      ![d.appointments[appointment_id].time_slot_id].is_available = TRUE],
                  appointments |-> [d.appointments EXCEPT
                      ![appointment_id].status = "cancelled"]],
          success |-> TRUE, error |-> None]

----------------------------------------------------------------------------
(* Responses of the HTTP handlers                                          *)

TwiML(host, call_sid, caller) ==
    [status |-> 200, media_type |-> "application/xml",
     url |-> "wss://" \o host \o "/voice/media-stream/" \o call_sid,
     call_sid |-> call_sid, customer_phone |-> caller, text |-> None]

PlainText(text) ==
    [status |-> 200, media_type |-> "text/plain", url |-> None,
     call_sid |-> None, customer_phone |-> None, text |-> text]

Json(text) ==
    [status |-> 200, media_type |-> "application/json", url |-> None,
     call_sid |-> None, customer_phone |-> None, text |-> text]

NoResponse == PlainText(None)

----------------------------------------------------------------------------
(* State                                                                   *)

VARIABLES
    now,          \* the wall clock read by datetime.utcnow()
    customers,    \* the customers table
    heap,         \* the ConversationState objects, by address
    sessions,     \* SessionManager._sessions
    br,           \* per call id: the RealtimeHandler serving its media WS
    mediaRead,    \* per call id: payloads of the media frames the uplink pump has read
    downRead,     \* per call id: the audio deltas and tool calls the downlink pump has read
    modelSent,    \* per call id: messages sent on the model WS
    carrierSent,  \* per call id: messages sent on the carrier WS
    lastOp,       \* the handler or pump step that ran last, with its result
    lastResp,     \* the HTTP response of the last webhook
    snapshot,     \* the dict the last get_active_sessions() returned
    db            \* the time_slots and appointments tables

vars == <<now, customers, heap, sessions, br, mediaRead, downRead,
          modelSent, carrierSent, lastOp, lastResp, snapshot, db>>

storeVars == <<customers, heap, sessions>>
logVars == <<mediaRead, downRead, modelSent, carrierSent>>

\* the states still referred to: by the store, by a bridge, or by the dict
\* a caller of get_active_sessions holds
Reclaim(hp, st, b) ==
    [o \in DOMAIN hp |->
        IF \E c \in DOMAIN st : st[c] = o \/ b[c].session = o \/ snapshot[c] = o
        THEN hp[o] ELSE Freed(hp[o].call_sid)]

Op(op, call, arg, ret) == [op |-> op, call |-> call, arg |-> arg, ret |-> ret]

IdleBridge ==
    [pc |-> "idle", session |-> 0, stream_sid |-> None, nup |-> 0, ndown |-> 0,
     openai_ws |-> "none", carrier_ws |-> "none", upl |-> "none", dnl |-> "none"]

Init ==
    /\ now = 0
    /\ customers = <<>>
    /\ heap = <<>>
    /\ sessions = [c \in CallIds |-> 0]
    /\ br = [c \in CallIds |-> IdleBridge]
    /\ mediaRead = [c \in CallIds |-> <<>>]
    /\ downRead = [c \in CallIds |-> <<>>]
    /\ modelSent = [c \in CallIds |-> <<>>]
    /\ carrierSent = [c \in CallIds |-> <<>>]
    /\ lastOp = Op("init", None, None, 0)
    /\ lastResp = NoResponse
    /\ snapshot = [c \in CallIds |-> 0]
    /\ db = SeedDb

----------------------------------------------------------------------------
(* The wall clock advances on its own.                                     *)

Tick ==
    /\ now < MaxTime
    /\ now' = now + 1
    /\ lastOp' = Op("tick", None, None, 0)
    /\ UNCHANGED <<storeVars, br, logVars, lastResp, snapshot, db>>

----------------------------------------------------------------------------
(* Carrier webhooks (app/api/voice.py)                                     *)

\* POST /voice/incoming-call.  d is the time that passes between the two
\* clock readings of create_session (started_at is read by the caller,
\* last_interaction by the default factory of the constructor).
handle_incoming_call(call_sid, caller, d) ==
    /\ Len(heap) < MaxObjs
    /\ now + d <= MaxTime
    /\ LET gc == get_or_create_customer(customers, caller)
           cs == create_session(heap, sessions, call_sid, caller, gc.id,
                                now, now + d)
       IN /\ customers' = gc.customers
          /\ heap' = Reclaim(cs.heap, cs.sessions, br)
          /\ sessions' = cs.sessions
          /\ lastOp' = Op("incoming_call", call_sid, caller, cs.ret)
    /\ now' = now + d
    /\ lastResp' = TwiML(Host, call_sid, caller)
    /\ UNCHANGED <<br, logVars, snapshot, db>>

\* variant: a status handler that does not treat canceled as terminal
handle_call_status_no_canceled(call_sid, call_status) ==
    /\ IF call_status \in {"completed", "busy", "failed", "no-answer"}
       THEN LET e == end_session(sessions, call_sid)
            IN /\ sessions' = e.sessions
               /\ heap' = Reclaim(heap, e.sessions, br)
               /\ lastOp' = Op("call_status", call_sid, "terminal", e.ret)
       ELSE /\ UNCHANGED <<sessions, heap>>
            /\ lastOp' = Op("call_status", call_sid, "other", 0)
    /\ lastResp' = PlainText("OK")
    /\ UNCHANGED <<now, customers, br, logVars, snapshot, db>>

\* POST /voice/call-status
handle_call_status(call_sid, call_status) ==
    /\ IF call_status \in {"completed", "busy", "failed", "no-answer", "canceled"}
       THEN LET e == end_session(sessions, call_sid)
            IN /\ sessions' = e.sessions
               /\ heap' = Reclaim(heap, e.sessions, br)
               /\ lastOp' = Op("call_status", call_sid, "terminal", e.ret)
       ELSE /\ UNCHANGED <<sessions, heap>>
            /\ lastOp' = Op("call_status", call_sid, "other", 0)
    /\ lastResp' = PlainText("OK")
    /\ UNCHANGED <<now, customers, br, logVars, snapshot, db>>

\* POST /voice/session/{call_sid}/context
add_session_context(call_sid, body) ==
    /\ LET o == get_session(sessions, call_sid)
       IN IF o = 0
          THEN /\ lastResp' = Json("Session not found")
               /\ lastOp' = Op("context", call_sid, None, 0)
               /\ UNCHANGED <<heap, sessions>>
          ELSE /\ heap[o].turn_count < MaxTurns
               /\ LET s1 == IF "appliance_type" \in body
                            THEN [heap[o] EXCEPT !.appliance_type = BodyAppliance]
                            ELSE heap[o]
                      s2 == IF "symptoms" \in body
                            THEN [s1 EXCEPT !.additional_symptoms =
                                               @ \o <<BodySymptom>>]
                            ELSE s1
                      s3 == IF "zip_code" \in body
                            THEN [s2 EXCEPT !.customer_zip_code = BodyZip]
                            ELSE s2
                      u == update_session([heap EXCEPT ![o] = s3], sessions, o, now)
                  IN /\ heap' = u.heap
                     /\ sessions' = u.sessions
               /\ lastResp' = Json("Context updated")
               /\ lastOp' = Op("context", call_sid, None, o)
    /\ UNCHANGED <<now, customers, br, logVars, snapshot, db>>

\* SessionManager.get_active_sessions, issued by an inspection of the store
GetActiveSessions ==
    /\ snapshot' = get_active_sessions(sessions)
    /\ lastOp' = Op("active", None, None, 0)
    /\ UNCHANGED <<now, storeVars, br, logVars, lastResp, db>>

\* SessionManager.transition_phase, issued for a call id
TransitionPhase(call_sid, new_phase) ==
    /\ get_session(sessions, call_sid) # 0 =>
           heap[get_session(sessions, call_sid)].turn_count < MaxTurns
    /\ LET r == transition_phase(heap, sessions, call_sid, new_phase, now)
       IN /\ heap' = r.heap
          /\ sessions' = r.sessions
          /\ lastOp' = Op("transition", call_sid, None, r.ret)
    /\ UNCHANGED <<now, customers, br, logVars, lastResp, snapshot, db>>

----------------------------------------------------------------------------
(* Tool dispatcher (VoiceAgent.execute_tool).  What the scheduling, image  *)
(* and database collaborators answer is an input of the call.              *)

EmptyArgs == [k \in {} |-> None]

ArgsTroubleshoot == "{\"appliance_type\":\"washer\",\"symptom\":\"won't start\"}"
ArgsZip == "{\"zip_code\":\"90210\"}"
ArgsEmpty == "{}"
ArgsUndecodable == "{\"zip_code\":"
ArgsAvailabilityText == "{\"zip_code\":\"90210\",\"appliance_type\":\"fridge\"}"

ArgsAvailability ==
    [k \in {"zip_code", "appliance_type"} |->
        IF k = "zip_code" THEN "90210" ELSE "fridge"]

ArgsBookingText == "{\"slot_id\":1,\"customer_name\":\"Jane Doe\",\"appliance_type\":\"Washer\",\"issue_description\":\"leaking\"}"

ArgsBooking ==
    [slot_id |-> 1, customer_name |-> "Jane Doe", appliance_type |-> "Washer",
     issue_description |-> "leaking"]
ArgsImage == [k \in {"email"} |-> "jane@example.com"]

\* json.loads on the argument strings above; FALSE/absent when it raises
JsonDecodes(text) ==
    text \in {ArgsTroubleshoot, ArgsZip, ArgsEmpty, ArgsAvailabilityText,
              ArgsBookingText}

JsonLoads(text) ==
    CASE text = ArgsTroubleshoot ->
            [k \in {"appliance_type", "symptom"} |->
                IF k = "appliance_type" THEN "washer" ELSE "won't start"]
      [] text = ArgsZip -> [k \in {"zip_code"} |-> "90210"]
      [] text = ArgsAvailabilityText -> ArgsAvailability
      [] text = ArgsBookingText -> ArgsBooking
      [] OTHER -> EmptyArgs

\* the tool calls the model emits: <<call_id, name, arguments>>
ToolCalls == {<<"c1", "get_troubleshooting_steps", ArgsTroubleshoot>>,
              <<"c1", "get_troubleshooting_steps", ArgsEmpty>>,
              <<"c2", "update_customer_info", ArgsZip>>,
              <<"c2", "update_customer_info", ArgsUndecodable>>,
              <<"c2", "lookup_warranty", ArgsEmpty>>}

\* tool calls that reach the scheduling collaborator, and calls that fail
\* before they reach any collaborator
SchedulingToolCalls ==
    {<<"c3", "check_technician_availability", ArgsAvailabilityText>>,
     <<"c4", "book_appointment", ArgsBookingText>>,
     <<"c1", "get_troubleshooting_steps", ArgsEmpty>>,
     <<"c2", "update_customer_info", ArgsUndecodable>>,
     <<"c2", "lookup_warranty", ArgsEmpty>>}

ToolFailureText ==
    "I encountered an issue while processing that. Let me try another approach."

\* str.split(None, 1) on the names above
NameParts(name) ==
    IF name = "Jane Doe" THEN <<"Jane", "Doe">> ELSE <<name>>

\* the names execute_tool dispatches on
ToolNames == {"get_troubleshooting_steps", "check_technician_availability",
              "book_appointment", "request_image_upload",
              "update_customer_info"}

\* what the collaborators behind a tool call find: "ok" they deliver (a
\* free slot, a stored upload request), "empty" they find nothing (no slot
\* in the area, no slot with the id), "booked" and "blocked" the slot with
\* the id is taken or blocked, "error" the database call raises
CollaboratorOutcomes == {"ok", "empty", "booked", "blocked", "error"}

\* str.lower and str.strip, character by character
LetterPairs ==
    <<<<"A", "a">>, <<"B", "b">>, <<"C", "c">>, <<"D", "d">>, <<"E", "e">>,
      <<"F", "f">>, <<"G", "g">>, <<"H", "h">>, <<"I", "i">>, <<"J", "j">>,
      <<"K", "k">>, <<"L", "l">>, <<"M", "m">>, <<"N", "n">>, <<"O", "o">>,
      <<"P", "p">>, <<"Q", "q">>, <<"R", "r">>, <<"S", "s">>, <<"T", "t">>,
      <<"U", "u">>, <<"V", "v">>, <<"W", "w">>, <<"X", "x">>, <<"Y", "y">>,
      <<"Z", "z">>>>

LowerChar(ch) ==
    IF \E i \in DOMAIN LetterPairs : LetterPairs[i][1] = ch
    THEN LetterPairs[CHOOSE i \in DOMAIN LetterPairs : LetterPairs[i][1] = ch][2]
    ELSE ch

UpperChar(ch) ==
    IF \E i \in DOMAIN LetterPairs : LetterPairs[i][2] = ch
    THEN LetterPairs[CHOOSE i \in DOMAIN LetterPairs : LetterPairs[i][2] = ch][1]
    ELSE ch

RECURSIVE StrLower(_)
StrLower(text) ==
    IF text = "" THEN ""
    ELSE LowerChar(SubSeq(text, 1, 1)) \o StrLower(SubSeq(text, 2, Len(text)))

RECURSIVE StrUpper(_)
StrUpper(text) ==
    IF text = "" THEN ""
    ELSE UpperChar(SubSeq(text, 1, 1)) \o StrUpper(SubSeq(text, 2, Len(text)))

Whitespace == {" ", "\t"}

RECURSIVE Strip(_)
Strip(text) ==
    IF text = "" THEN ""
    ELSE IF SubSeq(text, 1, 1) \in Whitespace
    THEN Strip(SubSeq(text, 2, Len(text)))
    ELSE IF SubSeq(text, Len(text), Len(text)) \in Whitespace
    THEN Strip(SubSeq(text, 1, Len(text) - 1))
    ELSE text

\* the dict `mappings` of normalize_appliance_type: <<key, tag>>
ApplianceMappings ==
    {<<"washer", "washer">>, <<"washing machine", "washer">>,
     <<"clothes washer", "washer">>, <<"laundry machine", "washer">>,
     <<"dryer", "dryer">>, <<"clothes dryer", "dryer">>,
     <<"tumble dryer", "dryer">>,
     <<"refrigerator", "refrigerator">>, <<"fridge", "refrigerator">>,
     <<"refridgerator", "refrigerator">>,
     <<"dishwasher", "dishwasher">>, <<"dish washer", "dishwasher">>,
     <<"oven", "oven">>, <<"stove", "oven">>, <<"range", "oven">>,
     <<"cooktop", "oven">>,
     <<"microwave", "microwave">>, <<"micro wave", "microwave">>,
     <<"hvac", "hvac">>, <<"ac", "hvac">>, <<"air conditioner", "hvac">>,
     <<"air conditioning", "hvac">>, <<"heat pump", "hvac">>,
     <<"furnace", "hvac">>, <<"heating", "hvac">>, <<"central air", "hvac">>,
     <<"garbage disposal", "garbage_disposal">>,
     <<"disposal", "garbage_disposal">>,
     <<"water heater", "water_heater">>,
     <<"hot water heater", "water_heater">>,
     <<"freezer", "freezer">>}

\* DiagnosticService.normalize_appliance_type: the input lower-cased and
\* stripped, then looked up in the dict; None outside the lexicon
normalize_appliance_type(user_input) ==
    LET key == Strip(StrLower(user_input))
    IN IF \E m \in ApplianceMappings : m[1] = key
       THEN (CHOOSE m \in ApplianceMappings : m[1] = key)[2]
       ELSE None

\* str.lower on the appliance names used here
Lower(text) ==
    CASE text = "Washer" -> "washer"
      [] text = "Toaster" -> "toaster"
      [] OTHER -> text

\* DiagnosticService.get_troubleshooting_steps: the knowledge base is keyed
\* by the closed appliance tags; the steps of the first matching symptom,
\* the default steps otherwise
get_troubleshooting_steps(appliance_type, symptom) ==
    IF appliance_type = "washer" /\ symptom = "won't start"
    THEN "Check that the washer is plugged in and the outlet has power"
    ELSE "Ensure the appliance is properly plugged in and receiving power"

\* a query that finds no row, and the appointment of a booking that failed
NoSlot == [id |-> 0, is_available |-> FALSE, is_blocked |-> FALSE]
NoAppointment ==
    [id |-> 0, confirmation_number |-> None, customer_id |-> 0,
     time_slot_id |-> 0, appliance_type |-> None]

\* a tool body returns its text, or raises; a raise inside
\* `with get_db_context()` rolls the database back, while the fields of
\* the session already assigned keep their values.  reached is the
\* appliance_type handed to the collaborator, slot the row of the time slot
\* after the call, appointment the appointment created.
Ret(result, s, cust) ==
    [result |-> result, session |-> s, customers |-> cust, raised |-> FALSE,
     reached |-> None, slot |-> NoSlot, appointment |-> NoAppointment]

Raise(s, cust) ==
    [result |-> None, session |-> s, customers |-> cust, raised |-> TRUE,
     reached |-> None, slot |-> NoSlot, appointment |-> NoAppointment]

Reaching(r, appliance_type) == [r EXCEPT !.reached = appliance_type]

_get_troubleshooting(appliance_type, symptom, s, cust) ==
    Reaching(Ret("Troubleshooting steps for " \o appliance_type \o " with '"
                    \o symptom \o "':\n- "
                    \o get_troubleshooting_steps(appliance_type, symptom),
                 s, cust),
             appliance_type)

_check_availability(zip_code, appliance_type, preferred_time, s, cust, out) ==
    LET normalized_type ==
            IF normalize_appliance_type(appliance_type) # None
            THEN normalize_appliance_type(appliance_type)
            ELSE Lower(appliance_type)
    IN CASE out = "error" -> Raise(s, cust)
         [] out = "empty" ->
               Reaching(Ret("I'm sorry, I couldn't find any available technicians for "
                               \o appliance_type \o " service in the " \o zip_code
                               \o " area. Would you like to try a different date range or check nearby zip codes?",
                            s, cust),
                        normalized_type)
         [] OTHER ->
               Reaching(Ret("Available appointments in " \o zip_code \o ":\nSlot 1",
                            [s EXCEPT !.customer_zip_code = zip_code], cust),
                        normalized_type)

\* the row of the time slot a booking names, as the database holds it
SlotRow(out) ==
    CASE out = "empty" -> NoSlot
      [] out = "booked" -> [id |-> 1, is_available |-> FALSE, is_blocked |-> FALSE]
      [] out = "blocked" -> [id |-> 1, is_available |-> TRUE, is_blocked |-> TRUE]
      [] OTHER -> [id |-> 1, is_available |-> TRUE, is_blocked |-> FALSE]

\* variant: a booking that takes the slot before it looks at the blocked flag
book_appointment_takes_blocked(slot, customer_id, time_slot_id, appliance_type) ==
    IF slot = NoSlot
    THEN [appointment |-> NoAppointment, error |-> "Time slot not found",
          slot |-> slot]
    ELSE IF ~slot.is_available
    THEN [appointment |-> NoAppointment,
          error |-> "This time slot is no longer available", slot |-> slot]
    ELSE IF slot.is_blocked
    THEN [appointment |-> NoAppointment, error |-> "This time slot is blocked",
          slot |-> [slot EXCEPT !.is_available = FALSE]]
    ELSE [appointment |-> [id |-> 1, confirmation_number |-> "SHS-1",
                           customer_id |-> customer_id,
                           time_slot_id |-> time_slot_id,
                           appliance_type |-> appliance_type],
          error |-> None,
          slot |-> [slot EXCEPT !.is_available = FALSE]]

\* variant: a booking that does not look at is_available
book_appointment_takes_booked(slot, customer_id, time_slot_id, appliance_type) ==
    IF slot = NoSlot
    THEN [appointment |-> NoAppointment, error |-> "Time slot not found",
          slot |-> slot]
    ELSE IF slot.is_blocked
    THEN [appointment |-> NoAppointment, error |-> "This time slot is blocked",
          slot |-> slot]
    ELSE [appointment |-> [id |-> 1, confirmation_number |-> "SHS-1",
                           customer_id |-> customer_id,
                           time_slot_id |-> time_slot_id,
                           appliance_type |-> appliance_type],
          error |-> None,
          slot |-> [slot EXCEPT !.is_available = FALSE]]

\* SchedulingService.book_appointment on the row `slot` of the time slot
book_appointment(slot, customer_id, time_slot_id, appliance_type) ==
    IF slot = NoSlot
    THEN [appointment |-> NoAppointment, error |-> "Time slot not found",
          slot |-> slot]
    ELSE IF ~slot.is_available
    THEN [appointment |-> NoAppointment,
          error |-> "This time slot is no longer available", slot |-> slot]
    ELSE IF slot.is_blocked
    THEN [appointment |-> NoAppointment, error |-> "This time slot is blocked",
          slot |-> slot]
    ELSE [appointment |-> [id |-> 1, confirmation_number |-> "SHS-1",
                           customer_id |-> customer_id,
                           time_slot_id |-> time_slot_id,
                           appliance_type |-> appliance_type],
          error |-> None,
          slot |-> [slot EXCEPT !.is_available = FALSE]]

_book_appointment(slot_id, customer_name, customer_zip_code, appliance_type, issue_description, s, cust, out) ==
    LET parts == NameParts(customer_name)
        named == IF s.customer_id # 0
                 THEN update_customer(cust, s.customer_id,
                        [f \in {"first_name", "last_name", "zip_code"} |->
                            CASE f = "first_name" -> parts[1]
                              [] f = "last_name" ->
                                    IF Len(parts) > 1 THEN parts[2] ELSE ""
                              [] OTHER -> customer_zip_code])
                 ELSE cust
        normalized_type ==
            IF normalize_appliance_type(appliance_type) # None
            THEN normalize_appliance_type(appliance_type)
            ELSE Lower(appliance_type)
        b == book_appointment(SlotRow(out), s.customer_id, slot_id,
                              normalized_type)
    IN IF out = "error" THEN Raise(s, cust)
       ELSE IF b.error # None
       THEN [Reaching(Ret("I wasn't able to book that appointment: "
                             \o b.error \o ". Let me check other available times.",
                          s, named),
                      normalized_type)
                EXCEPT !.slot = b.slot]
       ELSE [Reaching(Ret("Appointment booked successfully!\nConfirmation Number: "
                             \o b.appointment.confirmation_number,
                          [s EXCEPT !.appointment_id = b.appointment.id,
                                    !.appointment_confirmation =
                                        b.appointment.confirmation_number],
                          named),
                      normalized_type)
                EXCEPT !.slot = b.slot, !.appointment = b.appointment]

_request_image(email, appliance_type, specific_area, s, cust, out) ==
    IF out = "error" THEN Raise(s, cust)
    ELSE Reaching(Ret("I've sent an email to " \o email
                         \o " with a link to upload a photo"
                         \o (IF specific_area # None
                             THEN " of the " \o specific_area
                             ELSE IF appliance_type # None
                                  THEN " of your " \o appliance_type ELSE "")
                         \o ". The link will be valid for 24 hours.",
                      [s EXCEPT !.image_upload_requested = TRUE,
                                !.image_upload_token = "token",
                                !.customer_email = email],
                      cust),
                  appliance_type)

_update_customer(updates, s, cust, out) ==
    IF s.customer_id # 0
    THEN LET has(k) == k \in DOMAIN updates
             s1 == IF has("name")
                   THEN [s EXCEPT !.customer_name = updates["name"]] ELSE s
             s2 == IF has("email")
                   THEN [s1 EXCEPT !.customer_email = updates["email"]] ELSE s1
             s3 == IF has("zip_code")
                   THEN [s2 EXCEPT !.customer_zip_code = updates["zip_code"]]
                   ELSE s2
             s4 == IF has("address")
                   THEN [s3 EXCEPT !.customer_address = updates["address"]]
                   ELSE s3
             keys == {f \in {"first_name", "last_name", "email", "zip_code",
                             "address_line1"} :
                         \/ f \in {"first_name", "last_name"} /\ has("name")
                         \/ f = "email" /\ has("email")
                         \/ f = "zip_code" /\ has("zip_code")
                         \/ f = "address_line1" /\ has("address")}
             kwargs == [f \in keys |->
                         CASE f = "first_name" -> NameParts(updates["name"])[1]
                           [] f = "last_name" ->
                                IF Len(NameParts(updates["name"])) > 1
                                THEN NameParts(updates["name"])[2] ELSE None
                           [] f = "email" -> updates["email"]
                           [] f = "zip_code" -> updates["zip_code"]
                           [] OTHER -> updates["address"]]
         IN IF out = "error" THEN Raise(s4, cust)
            ELSE Ret("Customer information updated.", s4,
                     update_customer(cust, s.customer_id, kwargs))
    ELSE Ret("Customer information updated.", s, cust)

\* the body of the try block of execute_tool: a lookup of a missing
\* argument raises KeyError
Dispatch(tool_name, arguments, s, cust, out) ==
    LET has(K) == K \subseteq DOMAIN arguments
        get(k, default) == IF k \in DOMAIN arguments THEN arguments[k] ELSE default
    IN CASE tool_name = "get_troubleshooting_steps" ->
               IF has({"appliance_type", "symptom"})
               THEN _get_troubleshooting(arguments["appliance_type"],
                                         arguments["symptom"], s, cust)
               ELSE Raise(s, cust)
         [] tool_name = "check_technician_availability" ->
               IF has({"zip_code", "appliance_type"})
               THEN _check_availability(arguments["zip_code"],
                        arguments["appliance_type"],
                        get("preferred_time", "any"), s, cust, out)
               ELSE Raise(s, cust)
         [] tool_name = "book_appointment" ->
               IF has({"slot_id", "customer_name", "appliance_type",
                       "issue_description"})
               THEN _book_appointment(arguments["slot_id"],
                        arguments["customer_name"],
                        get("customer_zip_code", s.customer_zip_code),
                        arguments["appliance_type"],
                        arguments["issue_description"], s, cust, out)
               ELSE Raise(s, cust)
         [] tool_name = "request_image_upload" ->
               IF has({"email"})
               THEN _request_image(arguments["email"],
                        get("appliance_type", s.appliance_type),
                        get("specific_area", None), s, cust, out)
               ELSE Raise(s, cust)
         [] tool_name = "update_customer_info" ->
               _update_customer(arguments, s, cust, out)
         [] OTHER ->
               Ret("Unknown tool: " \o tool_name, s, cust)

\* variant: a dispatcher that answers an unknown name with the failure text
execute_tool_known_only(tool_name, arguments, s, cust, out) ==
    LET r == Dispatch(tool_name, arguments, s, cust, out)
    IN IF r.raised \/ tool_name \notin ToolNames
       THEN Ret(ToolFailureText, r.session, r.customers) ELSE r

\* variant: a dispatcher without the except clause
execute_tool_uncaught(tool_name, arguments, s, cust, out) ==
    Dispatch(tool_name, arguments, s, cust, out)

\* execute_tool(tool_name, arguments, session): whatever the try block
\* raises is caught and rendered as the failure text
execute_tool(tool_name, arguments, s, cust, out) ==
    LET r == Dispatch(tool_name, arguments, s, cust, out)
    IN IF r.raised THEN Ret(ToolFailureText, r.session, r.customers) ELSE r

----------------------------------------------------------------------------
(* Frames, events and messages on the two sockets                          *)

Frame(event, streamSid, payload) ==
    [event |-> event, streamSid |-> streamSid, payload |-> payload]

\* a text frame on which json.loads or a required key lookup raises
Malformed == "#malformed"

CarrierFrames ==
    {Frame("start", sid, None) : sid \in StreamSids}
    \cup {Frame("media", None, p) : p \in MediaPayloads}
    \cup {Frame(e, None, None) : e \in {"connected", "mark", "stop", Malformed}}

Event(type, data, call_id, name) ==
    [type |-> type, data |-> data, call_id |-> call_id, name |-> name]

LogEventTypes == {"response.audio_transcript.done", "error",
                  "session.created", "session.updated"}

ModelEvents ==
    {Event("response.audio.delta", d, None, None) : d \in Deltas}
    \cup {Event("conversation.item.input_audio_transcription.completed",
                t, None, None) : t \in Transcripts}
    \cup {Event("response.function_call_arguments.done", tc[3], tc[1], tc[2]) :
            tc \in ToolCalls}
    \cup {Event(t, None, None, None) : t \in LogEventTypes \cup {Malformed}}

Msg(type, item, call_id, data) ==
    [type |-> type, item |-> item, call_id |-> call_id, data |-> data]

SessionUpdateMsg == Msg("session.update", None, None, None)
GreetingMsg == Msg("conversation.item.create", "message", None, "greeting")
GreetingResponseMsg == Msg("response.create", None, None, "audio,text")
AppendMsg(payload) == Msg("input_audio_buffer.append", None, None, payload)
FunctionCallOutputMsg(call_id, result) ==
    Msg("conversation.item.create", "function_call_output", call_id, result)
ResponseCreateMsg == Msg("response.create", None, None, None)

\* variant: a media message without the stream's id
MediaMsg_no_sid(streamSid, payload) ==
    [event |-> "media", streamSid |-> "", payload |-> payload]

MediaMsg(streamSid, payload) ==
    [event |-> "media", streamSid |-> streamSid, payload |-> payload]

\* an entry of the history downRead
Read(kind, data) == [kind |-> kind, data |-> data]

\* text[:n]
Truncate(text, n) == IF Len(text) <= n THEN text ELSE SubSeq(text, 1, n)

\* variant: the whole transcript is kept
UserSaidWhole(transcript) == "User said: " \o transcript

\* f"User said: {transcript[:200]}"
UserSaid(transcript) == "User said: " \o Truncate(transcript, 200)

----------------------------------------------------------------------------
(* Media WebSocket endpoint (websocket_media_stream) and the bridge        *)
(* (RealtimeHandler.handle_twilio_connection)                              *)

\* both sockets open and both pumps running
Live(c) ==
    /\ br[c].pc = "pumping"
    /\ br[c].upl = "run" /\ br[c].dnl = "run"
    /\ br[c].openai_ws = "open" /\ br[c].carrier_ws = "open"

ClearLogs(c) ==
    /\ mediaRead' = [mediaRead EXCEPT ![c] = <<>>]
    /\ downRead' = [downRead EXCEPT ![c] = <<>>]
    /\ modelSent' = [modelSent EXCEPT ![c] = <<>>]
    /\ carrierSent' = [carrierSent EXCEPT ![c] = <<>>]

\* variant: a handler that dials the model WS without a session
StreamAcceptAnyway(c) ==
    /\ br[c].pc = "idle"
    /\ br' = [br EXCEPT ![c] =
                [IdleBridge EXCEPT !.pc = "dialing", !.carrier_ws = "open",
                                   !.session = get_session(sessions, c)]]
    /\ ClearLogs(c)
    /\ lastOp' = Op("accept", c, None, get_session(sessions, c))
    /\ UNCHANGED <<now, storeVars, lastResp, snapshot, db>>

\* accept the media WS and resolve the session; without one the handler
\* closes the carrier WS, with one it dials the model WS
StreamAccept(c) ==
    /\ br[c].pc = "idle"
    /\ br' = [br EXCEPT ![c] =
                IF get_session(sessions, c) = 0
                THEN [IdleBridge EXCEPT !.pc = "aborting", !.carrier_ws = "closed"]
                ELSE [IdleBridge EXCEPT !.pc = "dialing", !.carrier_ws = "open",
                                        !.session = get_session(sessions, c)]]
    /\ ClearLogs(c)
    /\ lastOp' = Op("accept", c, None, get_session(sessions, c))
    /\ UNCHANGED <<now, storeVars, lastResp, snapshot, db>>

\* the early return of the handler, then the endpoint's finally
StreamAbort(c) ==
    /\ br[c].pc = "aborting"
    /\ sessions' = end_session(sessions, c).sessions
    /\ br' = [br EXCEPT ![c] = IdleBridge]
    /\ heap' = Reclaim(heap, sessions', br')
    /\ lastOp' = Op("stream_end", c, "abort", end_session(sessions, c).ret)
    /\ UNCHANGED <<now, customers, logVars, lastResp, snapshot, db>>

\* variant: a cleanup that closes the model WS and stores nothing
_cleanup_no_update(c, arg) ==
    /\ br' = [br EXCEPT ![c].pc = "finishing",
                        ![c].openai_ws = IF @ = "none" THEN @ ELSE "closed"]
    /\ UNCHANGED <<sessions, heap>>
    /\ lastOp' = Op("cleanup", c, arg, get_session(sessions, c))

\* RealtimeHandler._cleanup: the session the bridge holds is stored again
\* under its call id, whatever the store holds for that id by now
_cleanup(c, arg) ==
    /\ LET u == IF br[c].session # 0
                THEN update_session(heap, sessions, br[c].session, now)
                ELSE [heap |-> heap, sessions |-> sessions]
       IN /\ br' = [br EXCEPT ![c].pc = "finishing",
                              ![c].openai_ws = IF @ = "none" THEN @ ELSE "closed"]
          /\ sessions' = u.sessions
          /\ heap' = u.heap
          /\ lastOp' = Op("cleanup", c, arg, get_session(sessions, c))

\* variant: an endpoint that returns without ending the session
StreamEndKeeps(c) ==
    /\ br[c].pc = "finishing"
    /\ br' = [br EXCEPT ![c] = IdleBridge]
    /\ lastOp' = Op("stream_end", c, lastOp.arg, 0)
    /\ UNCHANGED <<now, storeVars, logVars, lastResp, snapshot, db>>

\* the finally of websocket_media_stream, reached from _cleanup without a
\* suspension point in between
StreamEnd(c) ==
    /\ br[c].pc = "finishing"
    /\ sessions' = end_session(sessions, c).sessions
    /\ br' = [br EXCEPT ![c] = IdleBridge]
    /\ heap' = Reclaim(heap, sessions', br')
    /\ lastOp' = Op("stream_end", c, lastOp.arg, end_session(sessions, c).ret)
    /\ UNCHANGED <<now, customers, logVars, lastResp, snapshot, db>>

\* a handler is between _cleanup and the endpoint's finally: no other
\* coroutine runs until it has ended the session
Finishing == \E c \in CallIds : br[c].pc = "finishing"

\* variant: a setup that sends the greeting before the session config
DialOkGreetingFirst(c) ==
    /\ br[c].pc = "dialing"
    /\ br' = [br EXCEPT ![c].pc = "pumping", ![c].openai_ws = "open",
                        ![c].upl = "run", ![c].dnl = "run"]
    /\ modelSent' = [modelSent EXCEPT ![c] =
                        <<GreetingMsg, SessionUpdateMsg, GreetingResponseMsg>>]
    /\ lastOp' = Op("dial", c, "ok", 0)
    /\ UNCHANGED <<now, storeVars, mediaRead, downRead, carrierSent, lastResp, snapshot, db>>

\* the dial succeeds: session.update, the greeting item and response.create
DialOk(c) ==
    /\ br[c].pc = "dialing"
    /\ br' = [br EXCEPT ![c].pc = "pumping", ![c].openai_ws = "open",
                        ![c].upl = "run", ![c].dnl = "run"]
    /\ modelSent' = [modelSent EXCEPT ![c] =
                        <<SessionUpdateMsg, GreetingMsg, GreetingResponseMsg>>]
    /\ lastOp' = Op("dial", c, "ok", 0)
    /\ UNCHANGED <<now, storeVars, mediaRead, downRead, carrierSent, lastResp, snapshot, db>>

\* variant: a failed dial after which the session config is still sent
DialFailSends(c) ==
    /\ br[c].pc = "dialing"
    /\ _cleanup(c, "dial_failed")
    /\ modelSent' = [modelSent EXCEPT ![c] = <<SessionUpdateMsg>>]
    /\ UNCHANGED <<now, customers, mediaRead, downRead, carrierSent, lastResp, snapshot, db>>

\* the dial raises
DialFail(c) ==
    /\ br[c].pc = "dialing"
    /\ _cleanup(c, "dial_failed")
    /\ UNCHANGED <<now, customers, logVars, lastResp, snapshot, db>>

\* the messages of _configure_openai_session and _send_initial_greeting
SetupMsgs == <<SessionUpdateMsg, GreetingMsg, GreetingResponseMsg>>

\* the dial succeeds and one of the three setup sends raises, after k of
\* them went out
SetupFail(c, k) ==
    /\ br[c].pc = "dialing"
    /\ modelSent' = [modelSent EXCEPT ![c] = SubSeq(SetupMsgs, 1, k)]
    /\ LET u == update_session(heap, sessions, br[c].session, now)
       IN /\ br' = [br EXCEPT ![c].pc = "finishing", ![c].openai_ws = "closed"]
          /\ sessions' = u.sessions
          /\ heap' = u.heap
          /\ lastOp' = Op("cleanup", c, "setup_failed", get_session(sessions, c))
    /\ UNCHANGED <<now, customers, mediaRead, downRead, carrierSent, lastResp, snapshot, db>>

\* the peers close their sockets
CarrierClose(c) ==
    /\ br[c].pc = "pumping" /\ br[c].carrier_ws = "open"
    /\ br' = [br EXCEPT ![c].carrier_ws = "closed"]
    /\ lastOp' = Op("carrier_close", c, None, 0)
    /\ UNCHANGED <<now, storeVars, logVars, lastResp, snapshot, db>>

ModelClose(c) ==
    /\ br[c].pc = "pumping" /\ br[c].openai_ws = "open"
    /\ br' = [br EXCEPT ![c].openai_ws = "closed"]
    /\ lastOp' = Op("model_close", c, None, 0)
    /\ UNCHANGED <<now, storeVars, logVars, lastResp, snapshot, db>>

\* variant: a socket that delivers the newest message first
SendCarrierFirst(log, m) == <<m>> \o log

\* twilio_ws.send_text
SendCarrier(log, m) == Append(log, m)

\* variant: a socket that delivers the newest message first
SendModelFirst(log, m) == <<m>> \o log

\* openai_ws.send
SendModel(log, m) == Append(log, m)

\* one iteration of _receive_from_twilio on frame f
UplinkFrame(c, f) ==
    /\ br[c].pc = "pumping" /\ br[c].upl = "run" /\ br[c].carrier_ws = "open"
    /\ br[c].nup < MaxUplink
    /\ CASE f.event = "start" ->
              /\ br' = [br EXCEPT ![c].nup = @ + 1,
                                  ![c].stream_sid = f.streamSid]
              /\ UNCHANGED <<mediaRead, modelSent>>
         [] f.event = "media" ->
              /\ mediaRead' = [mediaRead EXCEPT ![c] = Append(@, f.payload)]
              /\ IF br[c].openai_ws = "open"
                 THEN /\ modelSent' = [modelSent EXCEPT ![c] =
                                         SendModel(@, AppendMsg(f.payload))]
                      /\ br' = [br EXCEPT ![c].nup = @ + 1]
                 ELSE /\ br' = [br EXCEPT ![c].nup = @ + 1, ![c].upl = "done"]
                      /\ UNCHANGED modelSent
         [] f.event \in {"stop", Malformed} ->
              /\ br' = [br EXCEPT ![c].nup = @ + 1, ![c].upl = "done"]
              /\ UNCHANGED <<mediaRead, modelSent>>
         [] OTHER ->
              /\ br' = [br EXCEPT ![c].nup = @ + 1]
              /\ UNCHANGED <<mediaRead, modelSent>>
    /\ lastOp' = Op("uplink", c, None, 0)
    /\ UNCHANGED <<now, storeVars, downRead, carrierSent, lastResp, snapshot, db>>

\* variant: an uplink pump that survives the closed carrier WS
UplinkDisconnectIgnored(c) ==
    /\ br[c].pc = "pumping" /\ br[c].upl = "run" /\ br[c].carrier_ws = "closed"
    /\ br' = br
    /\ lastOp' = Op("uplink", c, None, 0)
    /\ UNCHANGED <<now, storeVars, logVars, lastResp, snapshot, db>>

\* receive_text raises on the closed carrier WS
UplinkDisconnect(c) ==
    /\ br[c].pc = "pumping" /\ br[c].upl = "run" /\ br[c].carrier_ws = "closed"
    /\ br' = [br EXCEPT ![c].upl = "done"]
    /\ lastOp' = Op("uplink", c, None, 0)
    /\ UNCHANGED <<now, storeVars, logVars, lastResp, snapshot, db>>

\* _handle_tool_call
HandleToolCall(c, e) ==
    IF JsonDecodes(e.data)
    THEN \E out \in CollaboratorOutcomes :
            LET o == br[c].session
                r == execute_tool(e.name, JsonLoads(e.data), heap[o],
                                  customers, out)
            IN /\ heap' = [heap EXCEPT ![o] = r.session]
               /\ customers' = r.customers
               /\ IF r.raised
                  THEN UNCHANGED modelSent
                  ELSE modelSent' = [modelSent EXCEPT ![c] =
                          SendModel(SendModel(@,
                              FunctionCallOutputMsg(e.call_id, r.result)),
                              ResponseCreateMsg)]
    ELSE UNCHANGED <<heap, customers, modelSent>>

\* one iteration of _receive_from_openai on event e
DownlinkEvent(c, e) ==
    /\ br[c].pc = "pumping" /\ br[c].dnl = "run" /\ br[c].openai_ws = "open"
    /\ br[c].ndown < MaxDownlink
    /\ CASE e.type = "response.audio.delta" ->
              /\ downRead' = [downRead EXCEPT ![c] = Append(@, Read("delta", e.data))]
              /\ IF e.data # "" /\ br[c].stream_sid \notin {None, ""}
                 THEN IF br[c].carrier_ws = "open"
                      THEN /\ carrierSent' = [carrierSent EXCEPT ![c] =
                                  SendCarrier(@, MediaMsg(br[c].stream_sid, e.data))]
                           /\ br' = [br EXCEPT ![c].ndown = @ + 1]
                      ELSE /\ br' = [br EXCEPT ![c].ndown = @ + 1,
                                               ![c].dnl = "done"]
                           /\ UNCHANGED carrierSent
                 ELSE /\ br' = [br EXCEPT ![c].ndown = @ + 1]
                      /\ UNCHANGED carrierSent
              /\ UNCHANGED <<heap, customers, modelSent>>
         [] e.type = "conversation.item.input_audio_transcription.completed" ->
              /\ heap' = [heap EXCEPT ![br[c].session] =
                            update_interaction(add_fact(@, UserSaid(e.data)), now)]
              /\ br' = [br EXCEPT ![c].ndown = @ + 1]
              /\ UNCHANGED <<customers, modelSent, carrierSent, downRead>>
         [] e.type = "response.function_call_arguments.done" ->
              /\ HandleToolCall(c, e)
              /\ downRead' = [downRead EXCEPT ![c] = Append(@, Read("tool", e.call_id))]
              /\ br' = [br EXCEPT ![c].ndown = @ + 1]
              /\ UNCHANGED carrierSent
         [] e.type = Malformed ->
              /\ br' = [br EXCEPT ![c].ndown = @ + 1, ![c].dnl = "done"]
              /\ UNCHANGED <<heap, customers, modelSent, carrierSent, downRead>>
         [] OTHER ->
              /\ br' = [br EXCEPT ![c].ndown = @ + 1]
              /\ UNCHANGED <<heap, customers, modelSent, carrierSent, downRead>>
    /\ lastOp' = Op("downlink", c, None, 0)
    /\ UNCHANGED <<now, sessions, mediaRead, lastResp, snapshot, db>>

\* the iteration over the closed model WS ends with ConnectionClosed
DownlinkDisconnect(c) ==
    /\ br[c].pc = "pumping" /\ br[c].dnl = "run" /\ br[c].openai_ws = "closed"
    /\ br' = [br EXCEPT ![c].dnl = "done"]
    /\ lastOp' = Op("downlink", c, None, 0)
    /\ UNCHANGED <<now, storeVars, logVars, lastResp, snapshot, db>>

\* _handle_tool_call when the first send suspends: the tool has run and the
\* function_call_output is written, the downlink pump waits in the send
ToolCallBegin(c, e) ==
    /\ br[c].pc = "pumping" /\ br[c].dnl = "run" /\ br[c].openai_ws = "open"
    /\ br[c].ndown < MaxDownlink
    /\ e.type = "response.function_call_arguments.done" /\ JsonDecodes(e.data)
    /\ \E out \in {"ok", "error"} :
          LET o == br[c].session
              r == execute_tool(e.name, JsonLoads(e.data), heap[o], customers, out)
          IN /\ heap' = [heap EXCEPT ![o] = r.session]
             /\ customers' = r.customers
             /\ modelSent' = [modelSent EXCEPT ![c] =
                     SendModel(@, FunctionCallOutputMsg(e.call_id, r.result))]
    /\ downRead' = [downRead EXCEPT ![c] = Append(@, Read("tool", e.call_id))]
    /\ br' = [br EXCEPT ![c].ndown = @ + 1, ![c].dnl = "tool"]
    /\ lastOp' = Op("downlink", c, "tool_begin", 0)
    /\ UNCHANGED <<now, sessions, mediaRead, carrierSent, lastResp, snapshot, db>>

\* the pump resumes in _handle_tool_call: response.create is sent, or the
\* send raises on the closed model WS and the except clause logs it
ToolCallEnd(c) ==
    /\ br[c].dnl = "tool"
    /\ IF br[c].openai_ws = "open"
       THEN modelSent' = [modelSent EXCEPT ![c] = SendModel(@, ResponseCreateMsg)]
       ELSE UNCHANGED modelSent
    /\ br' = [br EXCEPT ![c].dnl = "run"]
    /\ lastOp' = Op("downlink", c, "tool_end", 0)
    /\ UNCHANGED <<now, storeVars, mediaRead, downRead, carrierSent, lastResp,
                   snapshot, db>>

\* variant: the pending pump is left running
BridgeCancelLeavesPump(c) ==
    /\ br[c].pc = "pumping"
    /\ br[c].upl = "done" \/ br[c].dnl = "done"
    /\ br' = [br EXCEPT ![c].pc = "closing"]
    /\ lastOp' = Op("cancel", c, None, 0)
    /\ UNCHANGED <<now, storeVars, logVars, lastResp, snapshot, db>>

\* asyncio.wait returns on the first completed pump; the other is cancelled
BridgeCancel(c) ==
    /\ br[c].pc = "pumping"
    /\ br[c].upl = "done" \/ br[c].dnl = "done"
    /\ br' = [br EXCEPT ![c].pc = "closing", ![c].upl = "done", ![c].dnl = "done"]
    /\ lastOp' = Op("cancel", c, None, 0)
    /\ UNCHANGED <<now, storeVars, logVars, lastResp, snapshot, db>>

\* the finally of handle_twilio_connection: the model WS is closed, then
\* _cleanup stores the session
BridgeCleanup(c) ==
    /\ br[c].pc = "closing"
    /\ _cleanup(c, "cleanup")
    /\ UNCHANGED <<now, customers, logVars, lastResp, snapshot, db>>

----------------------------------------------------------------------------

(* Specifications over the same actions.                                  *)
(*   Spec          the store under the webhooks of every call id            *)
(*   SpecCall      one call from webhook to stream end, with a bridge whose *)
(*                 pumps read the frames and events that end the stream or  *)
(*                 change the session                                       *)
(*   SpecUplink    one bridge, every carrier frame                          *)
(*   SpecDownlink  one bridge, every model event                            *)
(*   SpecTools     one bridge, the tool calls of the scheduling flow        *)
(*   SpecFacts     one bridge, the transcripts of the caller                *)
(*   SpecStore     the store operations of one call and its bridge          *)
(*   SpecPair      two calls, each with its webhooks and its bridge         *)
(*   SpecUpdate    update_customer_info on the state of one call            *)
(*   SpecScheduling  bookings, cancellations and searches on the slot table *)
(*   SpecNormalize the appliance lexicon                                    *)
(*   SpecCustomers customer lookups and updates by phone                    *)
(*   SpecCancel    one bridge whose tool calls may wait between two sends   *)
(*   SpecStream    one bridge, `start` frames with several stream ids       *)

BridgeCalls == {"CA1"}

StopFrame == Frame("stop", None, None)
StartFrames == {Frame("start", sid, None) : sid \in StreamSids}

TranscriptEvents ==
    {Event("conversation.item.input_audio_transcription.completed",
           t, None, None) : t \in Transcripts}

ToolCallEvent ==
    Event("response.function_call_arguments.done", ArgsZip, "c2",
          "update_customer_info")

Next ==
    \/ Tick
    \/ \E c \in CallIds, p \in Phones, d \in {0, 1} : handle_incoming_call(c, p, d)
    \/ \E c \in CallIds, s \in CallStatuses : handle_call_status(c, s)
    \/ \E c \in CallIds, b \in ContextBodies : add_session_context(c, b)
    \/ \E c \in CallIds, p \in TransitionTargets : TransitionPhase(c, p)

Spec == Init /\ [][Next]_vars

\* the store under every operation on it: create, end, get and update from
\* the webhooks, transition and active, and get, update and end from a
\* bridge whose dial fails
NextStore ==
    \/ /\ ~Finishing
       /\ \/ \E c \in CallIds, p \in Phones : handle_incoming_call(c, p, 0)
          \/ \E c \in CallIds : handle_call_status(c, "completed")
          \/ \E c \in CallIds : add_session_context(c, {})
          \/ \E c \in CallIds, p \in TransitionTargets : TransitionPhase(c, p)
          \/ GetActiveSessions
          \/ \E c \in BridgeCalls : StreamAccept(c)
          \/ \E c \in BridgeCalls : StreamAbort(c)
          \/ \E c \in BridgeCalls : DialFail(c)
    \/ \E c \in BridgeCalls : StreamEnd(c)

SpecStore == Init /\ [][NextStore]_vars

NextCall ==
    \/ /\ ~Finishing
       /\ \/ Tick
          \/ \E c \in BridgeCalls, p \in Phones, d \in {0, 1} :
                handle_incoming_call(c, p, d)
          \/ \E c \in BridgeCalls, s \in CallStatuses : handle_call_status(c, s)
          \/ \E c \in BridgeCalls, b \in ContextBodies : add_session_context(c, b)
          \/ \E c \in BridgeCalls, p \in TransitionTargets : TransitionPhase(c, p)
    \/ \E c \in BridgeCalls : StreamAccept(c)
    \/ \E c \in BridgeCalls : StreamAbort(c)
    \/ \E c \in BridgeCalls : DialOk(c)
    \/ \E c \in BridgeCalls : DialFail(c)
    \/ \E c \in BridgeCalls, k \in 0..2 : SetupFail(c, k)
    \/ \E c \in BridgeCalls : UplinkFrame(c, StopFrame)
    \/ \E c \in BridgeCalls, e \in TranscriptEvents : DownlinkEvent(c, e)
    \/ \E c \in BridgeCalls : BridgeCancel(c)
    \/ \E c \in BridgeCalls : BridgeCleanup(c)
    \/ \E c \in BridgeCalls : StreamEnd(c)

SpecCall == Init /\ [][NextCall]_vars

\* the webhook of the first call
FirstDelivery(c) ==
    /\ heap = <<>>
    /\ \E p \in Phones : handle_incoming_call(c, p, 0)

BridgeLifecycle(c) ==
    \/ FirstDelivery(c)
    \/ StreamAccept(c)
    \/ StreamAbort(c)
    \/ DialOk(c)
    \/ DialFail(c)
    \/ \E k \in 0..2 : SetupFail(c, k)
    \/ CarrierClose(c)
    \/ ModelClose(c)
    \/ UplinkDisconnect(c)
    \/ DownlinkDisconnect(c)
    \/ BridgeCancel(c)
    \/ BridgeCleanup(c)
    \/ StreamEnd(c)

NextUplink ==
    \/ \E c \in BridgeCalls : BridgeLifecycle(c)
    \/ \E c \in BridgeCalls, f \in CarrierFrames : UplinkFrame(c, f)
    \/ \E c \in BridgeCalls : DownlinkEvent(c, ToolCallEvent)

SpecUplink == Init /\ [][NextUplink]_vars

\* the steps the event loop takes on its own once they are possible: a read
\* on a closed socket raises, asyncio.wait returns, the finally blocks run
SpecUplinkFair ==
    /\ SpecUplink
    /\ \A c \in BridgeCalls :
          /\ WF_vars(UplinkDisconnect(c))
          /\ WF_vars(DownlinkDisconnect(c))
          /\ WF_vars(BridgeCancel(c))
          /\ WF_vars(BridgeCleanup(c))
          /\ WF_vars(StreamEnd(c))
          /\ WF_vars(StreamAbort(c))

\* tool calls with known and unknown names, complete and incomplete
\* arguments
ToolEvents ==
    {Event("response.function_call_arguments.done", tc[3], tc[1], tc[2]) :
        tc \in SchedulingToolCalls}

NextTools ==
    \/ \E c \in BridgeCalls : BridgeLifecycle(c)
    \/ \E c \in BridgeCalls, e \in ToolEvents : DownlinkEvent(c, e)

SpecTools == Init /\ [][NextTools]_vars

\* transcripts of user speech: short ones, one of 250 characters, and one
\* of 201 characters with the same first 200
RECURSIVE Repeat(_, _)
Repeat(text, n) == IF n = 0 THEN "" ELSE text \o Repeat(text, n - 1)

LongTranscripts ==
    {Repeat("0123456789", 25), Repeat("0123456789", 20) \o "x"}

FactEvents ==
    {Event("conversation.item.input_audio_transcription.completed",
           t, None, None) :
        t \in Transcripts \cup {"it is loud"} \cup LongTranscripts}

NextFacts ==
    \/ \E c \in BridgeCalls : BridgeLifecycle(c)
    \/ \E c \in BridgeCalls, e \in FactEvents : DownlinkEvent(c, e)

SpecFacts == Init /\ [][NextFacts]_vars

\* two calls at once, each with its webhooks and its bridge; the carrier
\* posts the incoming-call webhook of a call id once and opens the media
\* stream after it
PairCall(c) ==
    \/ \E p \in Phones : sessions[c] = 0 /\ handle_incoming_call(c, p, 0)
    \/ handle_call_status(c, "completed")
    \/ sessions[c] # 0 /\ StreamAccept(c)
    \/ DialOk(c)
    \/ UplinkFrame(c, StopFrame)
    \/ br[c].ndown < MaxPairEvents /\ DownlinkEvent(c, ToolCallEvent)
    \/ BridgeCancel(c)
    \/ BridgeCleanup(c)

NextPair ==
    \/ ~Finishing /\ \E c \in CallIds : PairCall(c)
    \/ \E c \in CallIds : StreamEnd(c)

SpecPair == Init /\ [][NextPair]_vars

NextDownlink ==
    \/ \E c \in BridgeCalls : BridgeLifecycle(c)
    \/ \E c \in BridgeCalls, f \in StartFrames \cup {StopFrame} : UplinkFrame(c, f)
    \/ \E c \in BridgeCalls, e \in ModelEvents : DownlinkEvent(c, e)

SpecDownlink == Init /\ [][NextDownlink]_vars

\* update_customer_info on the state of a call, with every subset of the
\* four fields; a state is created by the webhook (with the id of the
\* customer record) or by create_session without a customer_id
UpdateFields == {"name", "email", "zip_code", "address"}

UpdateValue(k) ==
    CASE k = "name" -> "Jane Doe"
      [] k = "email" -> "jane@example.com"
      [] k = "zip_code" -> "90210"
      [] OTHER -> "1 Main St"

UpdateMaps == {[k \in K |-> UpdateValue(k)] : K \in SUBSET UpdateFields}

\* the field of state.scheduling an argument is recorded in
SchedulingField(k) ==
    CASE k = "name" -> "customer_name"
      [] k = "email" -> "customer_email"
      [] k = "zip_code" -> "customer_zip_code"
      [] OTHER -> "customer_address"

\* SessionManager.create_session(call_sid, customer_phone): customer_id
\* keeps its default
CreateSessionNoCustomer(call_sid, caller) ==
    /\ Len(heap) < MaxObjs
    /\ LET cs == create_session(heap, sessions, call_sid, caller, 0, now, now)
       IN /\ heap' = Reclaim(cs.heap, cs.sessions, br)
          /\ sessions' = cs.sessions
          /\ lastOp' = Op("create_session", call_sid, caller, cs.ret)
    /\ UNCHANGED <<now, customers, br, logVars, lastResp, snapshot, db>>

\* VoiceAgent.execute_tool("update_customer_info", updates, session) on the
\* stored state of a call
UpdateCustomerInfo(c, updates, out) ==
    /\ sessions[c] # 0
    /\ LET r == execute_tool("update_customer_info", updates,
                             heap[sessions[c]], customers, out)
       IN /\ heap' = [heap EXCEPT ![sessions[c]] = r.session]
          /\ customers' = r.customers
          /\ lastOp' = Op("execute_tool", c, "update_customer_info", 0)
    /\ UNCHANGED <<now, sessions, br, logVars, lastResp, snapshot, db>>

NextUpdate ==
    \/ \E c \in BridgeCalls, p \in Phones : handle_incoming_call(c, p, 0)
    \/ \E c \in BridgeCalls, p \in Phones : CreateSessionNoCustomer(c, p)
    \/ \E c \in BridgeCalls, u \in UpdateMaps, out \in {"ok", "error"} :
          UpdateCustomerInfo(c, u, out)

SpecUpdate == Init /\ [][NextUpdate]_vars

\* the scheduling service under the requests that reach it: bookings (POST
\* /appointments and the book_appointment tool of a call), cancellations
\* (DELETE /appointments/{id}) and searches (GET /availability and the
\* check_technician_availability tool)
CustomerIds == {1, 2}
BookingSlotIds == SlotIds \cup {8}
SearchZips == {"90210", "10001"}
SearchTypes == {"washer", "refrigerator"}
TimePreferences == {None, "morning", "afternoon"}

\* SchedulingService.book_appointment on the tables, in one transaction
BookAppointment(customer_id, time_slot_id, appliance_type) ==
    /\ LET row == IF time_slot_id \in SlotIds THEN db.slots[time_slot_id]
                  ELSE NoSlot
           b == book_appointment(row, customer_id, time_slot_id, appliance_type)
           n == Len(db.appointments) + 1
       IN IF b.error # None
          THEN /\ db' = db
               /\ lastOp' = Op("book", time_slot_id, b.error, 0)
          ELSE /\ n <= MaxAppointments
               /\ db' = [slots |-> [db.slots EXCEPT ![time_slot_id] = b.slot],
                         appointments |->
                             Append(db.appointments,
                                    [id |-> n,
                                     time_slot_id |-> b.appointment.time_slot_id,
                                     customer_id |-> b.appointment.customer_id,
                                     status |-> "scheduled"])]
               /\ lastOp' = Op("book", time_slot_id, None, n)
    /\ UNCHANGED <<now, storeVars, br, logVars, lastResp, snapshot>>

\* SchedulingService.cancel_appointment on the tables
CancelAppointment(appointment_id) ==
    /\ LET r == cancel_appointment(db, appointment_id)
       IN /\ db' = r.db
          /\ lastOp' = Op("cancel", appointment_id, r.error,
                          IF r.success THEN 1 ELSE 0)
    /\ UNCHANGED <<now, storeVars, br, logVars, lastResp, snapshot>>

\* SchedulingService.get_available_slots on the tables; the length of the
\* list it returns is kept
GetAvailableSlots(zip_code, appliance_type, time_preference) ==
    /\ lastOp' = Op("availability", zip_code, appliance_type,
                    Cardinality(get_available_slots(db, zip_code,
                                    appliance_type, time_preference)))
    /\ UNCHANGED <<now, storeVars, br, logVars, lastResp, snapshot, db>>

NextScheduling ==
    \/ \E k \in CustomerIds, i \in BookingSlotIds : BookAppointment(k, i, "washer")
    \/ \E a \in 1..(MaxAppointments + 1) : CancelAppointment(a)
    \/ \E z \in SearchZips, t \in SearchTypes, p \in TimePreferences :
          GetAvailableSlots(z, t, p)

SpecScheduling == Init /\ [][NextScheduling]_vars

\* normalize_appliance_type on the keys of the lexicon as they are, in upper
\* case and with surrounding whitespace, on the tags, on the inputs of the
\* tests and on terms outside the lexicon, and again on its own results
LexiconKeys == {m[1] : m \in ApplianceMappings}
LexiconTags == {m[2] : m \in ApplianceMappings}

ApplianceInputs ==
    LexiconKeys \cup LexiconTags
    \cup {StrUpper(k) : k \in LexiconKeys}
    \cup {"  " \o k \o "\t" : k \in LexiconKeys}
    \cup {"Washing Machine", "AC", "unknown", "toaster", ""}

Normalize(user_input) ==
    /\ lastOp' = Op("normalize", user_input,
                    normalize_appliance_type(user_input), 0)
    /\ UNCHANGED <<now, storeVars, br, logVars, lastResp, snapshot, db>>

NormalizeAgain ==
    /\ lastOp.op = "normalize" /\ lastOp.arg # None
    /\ lastOp' = Op("normalize", lastOp.arg,
                    normalize_appliance_type(lastOp.arg), 1)
    /\ UNCHANGED <<now, storeVars, br, logVars, lastResp, snapshot, db>>

NextNormalize ==
    \/ \E x \in ApplianceInputs : Normalize(x)
    \/ NormalizeAgain

SpecNormalize == Init /\ [][NextNormalize]_vars

\* the customers table under get_or_create_customer for several callers and
\* under the updates the tools make
CallerPhones == {"+15551234567", "+15557654321", ""}

CustomerUpdates ==
    {[f \in {"zip_code"} |-> "90210"],
     [f \in {"first_name", "last_name"} |-> IF f = "first_name" THEN "Jane" ELSE None],
     [f \in {"phone"} |-> "+15557654321"]}

GetOrCreateCustomer(phone) ==
    /\ LET gc == get_or_create_customer(customers, phone)
       IN /\ customers' = gc.customers
          /\ lastOp' = Op("get_or_create_customer", phone, None, gc.id)
    /\ UNCHANGED <<now, heap, sessions, br, logVars, lastResp, snapshot, db>>

UpdateCustomer(customer_id, kwargs) ==
    /\ customers' = update_customer(customers, customer_id, kwargs)
    /\ lastOp' = Op("update_customer", None, None, customer_id)
    /\ UNCHANGED <<now, heap, sessions, br, logVars, lastResp, snapshot, db>>

NextCustomers ==
    \/ \E p \in CallerPhones : GetOrCreateCustomer(p)
    \/ \E i \in 1..3, k \in CustomerUpdates : UpdateCustomer(i, k)

SpecCustomers == Init /\ [][NextCustomers]_vars

\* one bridge whose pumps forward audio both ways and whose tool calls may
\* be suspended between their two sends when the other pump ends
DeltaModelEvents == {Event("response.audio.delta", "QUFB", None, None)}

CancelFrames == StartFrames \cup {StopFrame}

NextCancel ==
    \/ \E c \in BridgeCalls : BridgeLifecycle(c)
    \/ \E c \in BridgeCalls, f \in CancelFrames : UplinkFrame(c, f)
    \/ \E c \in BridgeCalls, e \in DeltaModelEvents : DownlinkEvent(c, e)
    \/ \E c \in BridgeCalls : DownlinkEvent(c, ToolCallEvent)
    \/ \E c \in BridgeCalls : ToolCallBegin(c, ToolCallEvent)
    \/ \E c \in BridgeCalls : ToolCallEnd(c)

SpecCancel == Init /\ [][NextCancel]_vars

\* one bridge whose carrier names its stream in `start` frames, a second
\* `start` frame and a `start` frame with an empty streamSid included,
\* while the model sends audio deltas
StartSids == {"MZ1", "MZ2", ""}

SidFrames == {Frame("start", sid, None) : sid \in StartSids} \cup {StopFrame}

NextStream ==
    \/ \E c \in BridgeCalls : BridgeLifecycle(c)
    \/ \E c \in BridgeCalls, f \in SidFrames : UplinkFrame(c, f)
    \/ \E c \in BridgeCalls, e \in DeltaModelEvents : DownlinkEvent(c, e)

SpecStream == Init /\ [][NextStream]_vars

\* the steps of SpecCancel the event loop takes on its own once they are
\* possible: a read or a send on a closed socket raises, a suspended send
\* resumes, asyncio.wait returns, the finally blocks run
SpecCancelFair ==
    /\ SpecCancel
    /\ \A c \in BridgeCalls :
          /\ WF_vars(UplinkDisconnect(c))
          /\ WF_vars(DownlinkDisconnect(c))
          /\ WF_vars(ToolCallEnd(c))
          /\ WF_vars(BridgeCancel(c))
          /\ WF_vars(BridgeCleanup(c))
          /\ WF_vars(StreamEnd(c))
          /\ WF_vars(StreamAbort(c))

----------------------------------------------------------------------------
(* Properties                                                              *)

IsPrefix(a, b) == Len(a) <= Len(b) /\ SubSeq(b, 1, Len(a)) = a

RECURSIVE IsSubseq(_, _)
IsSubseq(a, b) ==
    IF a = <<>> THEN TRUE
    ELSE IF b = <<>> THEN FALSE
    ELSE IF Head(a) = Head(b) THEN IsSubseq(Tail(a), Tail(b))
    ELSE IsSubseq(a, Tail(b))

Data(log) == [i \in DOMAIN log |-> log[i].data]

AppendsSent(c) ==
    Data(SelectSeq(modelSent[c], LAMBDA m : m.type = "input_audio_buffer.append"))

DeltasRead(c) == Data(SelectSeq(downRead[c], LAMBDA r : r.kind = "delta"))

MediaSent(c) == [i \in DOMAIN carrierSent[c] |-> carrierSent[c][i].payload]

ToolCallEvents == {e \in ModelEvents : e.type = "response.function_call_arguments.done"}
DeltaEvents == {e \in ModelEvents : e.type = "response.audio.delta"}

\* the fields of a ConversationState other than its timestamps
Content(s) ==
    [f \in DOMAIN s \ {"started_at", "last_interaction"} |-> s[f]]

Ended(c) == lastOp.op = "call_status" /\ lastOp.arg = "terminal" /\ lastOp.call = c

(* C1: every tool-call event the downlink pump reads while the bridge is   *)
(* live is answered on the model WS by exactly one function_call_output    *)
(* with the event's call_id followed by exactly one response.create,       *)
(* whatever the tool name and whether or not the arguments decode.         *)
C1_ToolCallAnswered ==
    [][\A c \in BridgeCalls, e \in ToolCallEvents :
          Live(c) /\ DownlinkEvent(c, e) =>
              /\ Len(modelSent'[c]) = Len(modelSent[c]) + 2
              /\ IsPrefix(modelSent[c], modelSent'[c])
              /\ modelSent'[c][Len(modelSent[c]) + 1].item = "function_call_output"
              /\ modelSent'[c][Len(modelSent[c]) + 1].call_id = e.call_id
              /\ modelSent'[c][Len(modelSent[c]) + 2] = ResponseCreateMsg]_vars

(* C2 as stated: the payloads of the input_audio_buffer.append messages    *)
(* sent on the model WS are exactly the payloads of the media frames the   *)
(* uplink pump has read, in the same order.                                *)
C2_AppendsEqualMediaRead ==
    \A c \in CallIds : AppendsSent(c) = mediaRead[c]

(* C2 amended: the appends sent are the media payloads read, in order and  *)
(* unchanged, as long as the model WS is open; a media frame read after    *)
(* the model WS has closed is not forwarded and ends the uplink pump, so   *)
(* the appends are always a prefix of the media payloads read, short by at *)
(* most that one frame; start, connected and mark frames send nothing.     *)
C2_AppendsFollowMediaRead ==
    /\ [](\A c \in CallIds :
            /\ IsPrefix(AppendsSent(c), mediaRead[c])
            /\ Len(mediaRead[c]) <= Len(AppendsSent(c)) + 1
            /\ br[c].openai_ws = "open" => AppendsSent(c) = mediaRead[c]
            /\ AppendsSent(c) # mediaRead[c] => br[c].upl # "run")
    /\ [][\A c \in BridgeCalls, f \in CarrierFrames :
            f.event \in {"start", "connected", "mark"} /\ UplinkFrame(c, f)
                => modelSent'[c] = modelSent[c]]_vars

\* two different media frames have been forwarded, around a tool-call reply
C2_Witness ==
    \E c \in CallIds :
        /\ Len(mediaRead[c]) = 2 /\ mediaRead[c][1] # mediaRead[c][2]
        /\ AppendsSent(c) = mediaRead[c]
        /\ \E i \in DOMAIN modelSent[c] : modelSent[c][i].item = "function_call_output"

(* C3: the media messages on the carrier WS carry the deltas the downlink  *)
(* pump has read in the order it read them, also when a tool call was      *)
(* handled between two forwarded deltas.                                   *)
C3_DownlinkOrder ==
    \A c \in CallIds : IsSubseq(MediaSent(c), DeltasRead(c))

\* two different deltas forwarded, with a tool call read between them
C3_Witness ==
    \E c \in CallIds :
        /\ Len(downRead[c]) = 3
        /\ downRead[c][1].kind = "delta" /\ downRead[c][2].kind = "tool"
        /\ downRead[c][3].kind = "delta"
        /\ downRead[c][1].data # downRead[c][3].data
        /\ MediaSent(c) = <<downRead[c][1].data, downRead[c][3].data>>

(* C4: every audio delta the downlink pump reads while the bridge is live  *)
(* puts exactly one media message on the carrier WS, carrying the stream's *)
(* streamSid and the delta, whether or not the carrier's start frame has   *)
(* been read yet (stated here for the non-empty deltas).                   *)
C4_EveryDeltaForwarded ==
    [][\A c \in BridgeCalls, e \in DeltaEvents :
          Live(c) /\ e.data # "" /\ DownlinkEvent(c, e) =>
              /\ br'[c].stream_sid \in StreamSids
              /\ carrierSent'[c] =
                    Append(carrierSent[c], MediaMsg(br'[c].stream_sid, e.data))]_vars

(* C5: the store holds each ConversationState under its own call id, and   *)
(* removal is final: a call id that has no state gets one only from a new  *)
(* create, never from a context update, a transition or a bridge cleanup.  *)
C5_RemovalIsFinal ==
    /\ [](\A c \in CallIds :
            get_session(sessions, c) # 0 => heap[get_session(sessions, c)].call_sid = c)
    /\ [][\A c \in CallIds :
            get_session(sessions, c) = 0 /\ get_session(sessions', c) # 0
                => lastOp'.op = "incoming_call" /\ lastOp'.call = c]_vars

(* C6: end is idempotent: on every store state and call id, a second end   *)
(* leaves the store as the first left it; the first returns the prior      *)
(* state and the second returns nothing.                                   *)
C6_EndIdempotent ==
    \A x \in CallIds :
        LET e1 == end_session(sessions, x)
            e2 == end_session(e1.sessions, x)
        IN /\ e2.sessions = e1.sessions
           /\ e1.ret = get_session(sessions, x)
           /\ e2.ret = 0
           /\ get_session(e1.sessions, x) = 0

\* a terminal status webhook has ended a call that had a state, while the
\* other call's state is live
C6_Witness ==
    \E x \in CallIds :
        /\ Ended(x) /\ lastOp.ret # 0
        /\ get_session(sessions, x) = 0
        /\ \E y \in CallIds \ {x} : get_session(sessions, y) # 0

(* C7: create for a call id that has a live state fails: the webhook       *)
(* answers with an error status and the live state is left as it was.      *)
C7_DuplicateCreateFails ==
    [][\A c \in CallIds :
          get_session(sessions, c) # 0
          /\ lastOp'.op = "incoming_call" /\ lastOp'.call = c
              => /\ lastResp'.status >= 400
                 /\ get_session(sessions', c) # 0
                 /\ heap'[get_session(sessions', c)]
                        = heap[get_session(sessions, c)]]_vars

(* C8: for a live call id, turn_count and last_interaction as seen through *)
(* get never decrease from one observation to a later one, and             *)
(* last_interaction >= started_at.                                         *)
C8_TurnsNeverDecrease ==
    /\ [](\A c \in CallIds :
            get_session(sessions, c) # 0 =>
                heap[get_session(sessions, c)].last_interaction
                    >= heap[get_session(sessions, c)].started_at)
    /\ [][\A c \in CallIds :
            get_session(sessions, c) # 0 /\ get_session(sessions', c) # 0 =>
                /\ heap'[get_session(sessions', c)].turn_count
                       >= heap[get_session(sessions, c)].turn_count
                /\ heap'[get_session(sessions', c)].last_interaction
                       >= heap[get_session(sessions, c)].last_interaction]_vars

(* C9: the inbound-call webhook is idempotent per call id: delivered again *)
(* for a live call with the same caller it returns the same signaling      *)
(* document and leaves the call's stored state and the customer records    *)
(* as they were.                                                           *)
C9_RedeliveryChangesNothing ==
    [][\A c \in CallIds :
          get_session(sessions, c) # 0
          /\ lastOp'.op = "incoming_call" /\ lastOp'.call = c
          /\ lastOp'.arg = heap[get_session(sessions, c)].customer_phone
              => /\ lastResp' = TwiML(Host, c, lastOp'.arg)
                 /\ customers' = customers
                 /\ get_session(sessions', c) # 0
                 /\ Content(heap'[get_session(sessions', c)])
                        = Content(heap[get_session(sessions, c)])]_vars

(* C10: a status webhook with a terminal status ends the call's session,   *)
(* and on a call without a session changes nothing; with any other status  *)
(* it leaves the session as it is; the sessions of the other call ids are  *)
(* never affected.                                                         *)
C10_StatusWebhook ==
    [][\A c \in CallIds, s \in CallStatuses :
          handle_call_status(c, s) =>
              /\ s \in TerminalStatuses => get_session(sessions', c) = 0
              /\ s \in TerminalStatuses /\ get_session(sessions, c) = 0
                    => sessions' = sessions /\ heap' = heap
              /\ s \notin TerminalStatuses => sessions' = sessions /\ heap' = heap
              /\ customers' = customers
              /\ \A x \in CallIds \ {c} :
                    /\ get_session(sessions', x) = get_session(sessions, x)
                    /\ get_session(sessions, x) # 0 =>
                          heap'[get_session(sessions, x)]
                              = heap[get_session(sessions, x)]]_vars

\* a second terminal status webhook for a call whose state a first one had
\* removed, while the other call's state is live
C10_Witness ==
    \E x \in CallIds :
        /\ Ended(x) /\ lastOp.ret = 0
        /\ \E o \in DOMAIN heap : heap[o] = Freed(x)
        /\ \E y \in CallIds \ {x} : get_session(sessions, y) # 0

----------------------------------------------------------------------------
(* Termination of the bridge                                               *)

\* the media stream of c has begun to close: a pump is done, a peer has
\* closed its socket, or the handler is past its pumps
Closing(c) ==
    \/ br[c].pc \in {"closing", "finishing", "aborting"}
    \/ /\ br[c].pc = "pumping"
       /\ \/ br[c].upl = "done" \/ br[c].dnl = "done"
          \/ br[c].carrier_ws = "closed" \/ br[c].openai_ws = "closed"

(* C11: whenever the media WebSocket of a call closes (stop frame, carrier *)
(* disconnect, model disconnect, setup failure) and no status webhook      *)
(* arrives, the call's session is eventually removed from the store.       *)
C11_NoLeakOnMediaClose ==
    \A c \in BridgeCalls :
        Closing(c) ~> (br[c].pc = "idle" /\ get_session(sessions, c) = 0)

\* the endpoint has just ended a stream whose session was still stored
C11_Witness ==
    \E c \in BridgeCalls :
        /\ lastOp.op = "stream_end" /\ lastOp.call = c /\ lastOp.ret # 0
        /\ br[c].pc = "idle" /\ get_session(sessions, c) = 0
        /\ mediaRead[c] # <<>>

(* C12: after the bridge of a call has terminated because the carrier      *)
(* closed its socket, the call's session is still in the store when the    *)
(* media endpoint returns (no status webhook has been processed).          *)
C12_SessionRemainsAfterBridge ==
    [][\A c \in BridgeCalls :
          br[c].carrier_ws = "closed" /\ get_session(sessions, c) # 0
          /\ StreamEnd(c)
              => get_session(sessions', c) = get_session(sessions, c)]_vars

(* C13: when the first pump has completed the bridge leaves the pumping    *)
(* phase only by cancelling the other pump; it leaves the closing phase    *)
(* only through _cleanup, after which the model WS is closed and the state *)
(* the bridge holds has been updated (turn_count + 1, last_interaction     *)
(* refreshed) and stored under the call id; the handler returns only then. *)
C13_TerminationUpdates ==
    /\ [][\A c \in BridgeCalls :
            br[c].pc = "pumping" /\ br'[c].pc # "pumping" =>
                /\ br[c].upl = "done" \/ br[c].dnl = "done"
                /\ br'[c].pc = "closing"
                /\ br'[c].upl = "done" /\ br'[c].dnl = "done"]_vars
    /\ [][\A c \in BridgeCalls :
            br[c].pc = "closing" /\ br'[c].pc # "closing" =>
                /\ br'[c].pc = "finishing"
                /\ br'[c].openai_ws = "closed"
                /\ get_session(sessions', c) = br[c].session
                /\ heap'[br[c].session]
                      = update_interaction(heap[br[c].session], now)]_vars
    /\ [][\A c \in BridgeCalls :
            br[c].pc # "idle" /\ br'[c].pc = "idle" =>
                br[c].pc \in {"finishing", "aborting"}]_vars

\* a bridge has run its cleanup after a pump completed, the carrier WS
\* still open
C13_Witness ==
    \E c \in BridgeCalls :
        /\ br[c].pc = "finishing" /\ lastOp = Op("cleanup", c, "cleanup", br[c].session)
        /\ br[c].carrier_ws = "open" /\ br[c].upl = "done"
        /\ heap[br[c].session].turn_count > 0

(* C14: a carrier frame that fails to decode is skipped: the uplink pump   *)
(* is still running after it.                                              *)
C14_BadFrameSkipped ==
    [][\A c \in BridgeCalls, f \in CarrierFrames :
          f.event = Malformed /\ Live(c) /\ UplinkFrame(c, f)
              => br'[c].upl = "run"]_vars

(* C15: a model event that fails to decode is logged and skipped: the      *)
(* downlink pump is still running after it.                                *)
C15_BadEventSkipped ==
    [][\A c \in BridgeCalls, e \in ModelEvents :
          e.type = Malformed /\ Live(c) /\ DownlinkEvent(c, e)
              => br'[c].dnl = "run"]_vars

----------------------------------------------------------------------------
(* Setup of the bridge                                                     *)

\* no pump of c has been started and nothing went over either socket
Untouched(c) ==
    /\ br[c].upl = "none" /\ br[c].dnl = "none"
    /\ modelSent[c] = <<>> /\ carrierSent[c] = <<>>
    /\ mediaRead[c] = <<>> /\ downRead[c] = <<>>

DialFailed(c) ==
    br[c].pc = "finishing" /\ lastOp.op = "cleanup" /\ lastOp.call = c
        /\ lastOp.arg = "dial_failed"

C17_AbortOnMiss ==
    /\ [][\A c \in BridgeCalls :
            get_session(sessions, c) = 0 /\ StreamAccept(c) =>
                /\ br'[c].pc = "aborting"
                /\ br'[c].carrier_ws = "closed" /\ br'[c].openai_ws = "none"
                /\ UNCHANGED <<sessions, heap>>]_vars
    /\ [](\A c \in BridgeCalls : br[c].pc = "aborting" => Untouched(c))
    /\ [][\A c \in BridgeCalls :
            br[c].pc = "aborting" /\ br'[c] # br[c] =>
                /\ br'[c] = IdleBridge
                /\ get_session(sessions', c) = 0
                /\ logVars' = logVars]_vars

\* the endpoint has returned from a stream that found no session
C17_Witness ==
    \E c \in BridgeCalls :
        /\ lastOp = Op("stream_end", c, "abort", 0)
        /\ Untouched(c) /\ get_session(sessions, c) = 0

(* C18: on the model WS the first message is session.update, the second    *)
(* the greeting item, the third response.create; no audio append and no    *)
(* function_call_output is sent before these three.                        *)
C18_SetupOrder ==
    \A c \in CallIds :
        /\ IsPrefix(modelSent[c], SetupMsgs) \/ IsPrefix(SetupMsgs, modelSent[c])
        /\ SetupMsgs[1].type = "session.update"
        /\ SetupMsgs[2].type = "conversation.item.create"
        /\ SetupMsgs[2].item = "message"
        /\ SetupMsgs[3].type = "response.create"

\* after the setup an audio append and a tool-call reply have been sent
C18_Witness ==
    \E c \in CallIds :
        /\ Len(modelSent[c]) > 4
        /\ \E i \in DOMAIN modelSent[c] :
              modelSent[c][i].type = "input_audio_buffer.append"
        /\ \E i \in DOMAIN modelSent[c] :
              modelSent[c][i].item = "function_call_output"

----------------------------------------------------------------------------
(* Tool dispatcher                                                         *)

\* decoded argument maps: complete ones and ones with arguments missing
ArgMaps ==
    {EmptyArgs, JsonLoads(ArgsTroubleshoot), JsonLoads(ArgsZip),
     ArgsAvailability, ArgsBooking, ArgsImage}

UnknownToolNames == {"lookup_warranty", "Book_Appointment", ""}

(* C19: execute with a name that is none of the five tools returns the     *)
(* text "Unknown tool: <name>", raises nothing and leaves the state and    *)
(* the customer records as they are; the bridge sends that text back.      *)
C19_UnknownTool ==
    [][\A c \in BridgeCalls, e \in ToolEvents :
          Live(c) /\ e.name \notin ToolNames /\ DownlinkEvent(c, e) =>
              /\ \A n \in UnknownToolNames, a \in ArgMaps,
                    out \in CollaboratorOutcomes :
                    execute_tool(n, a, heap[br[c].session], customers, out)
                        = Ret("Unknown tool: " \o n, heap[br[c].session],
                              customers)
              /\ modelSent'[c][Len(modelSent[c]) + 1]
                    = FunctionCallOutputMsg(e.call_id, "Unknown tool: " \o e.name)
              /\ UNCHANGED <<heap, customers, sessions>>]_vars

\* the reply to a tool call with an unknown name has been sent
C19_Witness ==
    \E c \in BridgeCalls : \E i \in DOMAIN modelSent[c] :
        /\ modelSent[c][i].item = "function_call_output"
        /\ modelSent[c][i].data = "Unknown tool: lookup_warranty"

(* C20: for every tool name, argument map (also with required arguments    *)
(* missing) and collaborator outcome (also a raising one), execute returns *)
(* a non-empty text and does not raise; after a tool call the bridge has   *)
(* sent that text back and its downlink pump is still running.             *)
C20_ToolNeverRaises ==
    [][\A c \in BridgeCalls, e \in ToolEvents :
          Live(c) /\ JsonDecodes(e.data) /\ DownlinkEvent(c, e) =>
              /\ \A n \in ToolNames \cup UnknownToolNames, a \in ArgMaps,
                    out \in CollaboratorOutcomes :
                    LET r == execute_tool(n, a, heap[br[c].session],
                                          customers, out)
                    IN ~r.raised /\ r.result \notin {"", None}
              /\ Len(modelSent'[c]) = Len(modelSent[c]) + 2
              /\ modelSent'[c][Len(modelSent[c]) + 1].data \notin {"", None}
              /\ br'[c].dnl = "run" /\ br'[c].pc = "pumping"]_vars

\* the failure text of a tool call has been sent back and the downlink
\* pump has gone on to read the next event
C20_Witness ==
    \E c \in BridgeCalls :
        /\ \E i \in DOMAIN modelSent[c] :
              /\ modelSent[c][i].item = "function_call_output"
              /\ modelSent[c][i].data = ToolFailureText
        /\ Len(downRead[c]) = 2 /\ downRead[c][1].kind = "tool"
        /\ br[c].dnl = "run" /\ br[c].pc = "pumping"

----------------------------------------------------------------------------
(* Tool-call round trips                                                   *)

\* call ids of the tool calls the downlink pump has read, in order
ToolCallsRead(c) == Data(SelectSeq(downRead[c], LAMBDA r : r.kind = "tool"))

\* the messages on the model WS that belong to tool calls
ToolMsgsSent(c) ==
    SelectSeq(modelSent[c],
              LAMBDA m : m.item = "function_call_output" \/ m = ResponseCreateMsg)

(* C21: the tool calls of one call are answered in the order the model     *)
(* emits them: the tool-call messages on the model WS are, for the 1st,    *)
(* 2nd, ... tool call read, its function_call_output directly followed by  *)
(* its response.create, so both messages of an earlier call precede the    *)
(* output of a later one and no pair is split by another call's message.   *)
C21_ToolCallsSerialized ==
    \A c \in BridgeCalls :
        /\ Len(ToolMsgsSent(c)) = 2 * Len(ToolCallsRead(c))
        /\ \A i \in DOMAIN ToolCallsRead(c) :
              /\ ToolMsgsSent(c)[2 * i - 1].item = "function_call_output"
              /\ ToolMsgsSent(c)[2 * i - 1].call_id = ToolCallsRead(c)[i]
              /\ ToolMsgsSent(c)[2 * i] = ResponseCreateMsg

----------------------------------------------------------------------------
(* Scheduling tools                                                        *)

\* the collaborator finds no slot with the id, a booked one, a blocked one
UnbookableOutcomes == {"empty", "booked", "blocked"}

BookingEvents == {e \in ToolEvents : e.name = "book_appointment"}

(* C23: book_appointment for a slot that is missing, already booked or     *)
(* blocked returns a text beginning with "I wasn't able to book" and does  *)
(* not raise; the appointment id and confirmation code of the state stay   *)
(* as they were (empty on a state without a booking), no appointment is    *)
(* created and the row of the slot is unchanged; the bridge sends that     *)
(* text back and the state it holds keeps its empty outcome.               *)
C23_BookingFailure ==
    [][\A c \in BridgeCalls, e \in BookingEvents :
          Live(c) /\ JsonDecodes(e.data) /\ DownlinkEvent(c, e) =>
              LET s == heap[br[c].session]
                  reply == modelSent'[c][Len(modelSent[c]) + 1].data
              IN /\ \A out \in UnbookableOutcomes :
                        LET r == execute_tool(e.name, JsonLoads(e.data), s,
                                              customers, out)
                        IN /\ ~r.raised
                           /\ IsPrefix("I wasn't able to book", r.result)
                           /\ r.session = s
                           /\ s.appointment_id = 0 =>
                                 /\ r.session.appointment_id = 0
                                 /\ r.session.appointment_confirmation = None
                           /\ r.appointment = NoAppointment
                           /\ r.slot = SlotRow(out)
                 /\ IsPrefix("I wasn't able to book", reply) =>
                        /\ heap'[br[c].session] = s
                        /\ s.appointment_id = 0 =>
                              /\ heap'[br[c].session].appointment_id = 0
                              /\ heap'[br[c].session].appointment_confirmation
                                    = None]_vars

\* a booking has been refused because the slot is blocked, on a state
\* without a booking
C23_Witness ==
    \E c \in BridgeCalls :
        /\ br[c].pc = "pumping" /\ br[c].session # 0
        /\ heap[br[c].session].appointment_id = 0
        /\ \E i \in DOMAIN modelSent[c] :
              /\ modelSent[c][i].item = "function_call_output"
              /\ modelSent[c][i].data =
                    "I wasn't able to book that appointment: This time slot is blocked. Let me check other available times."

AvailabilityEvents ==
    {e \in ToolEvents : e.name = "check_technician_availability"}

(* C24: after check_technician_availability(zip_code = z, ...) returns     *)
(* normally the zip code of the state is z, whether or not a slot was      *)
(* found, and no other field of the state has changed.                     *)
C24_AvailabilityRecordsZip ==
    [][\A c \in BridgeCalls, e \in AvailabilityEvents :
          Live(c) /\ JsonDecodes(e.data) /\ DownlinkEvent(c, e)
          /\ modelSent'[c][Len(modelSent[c]) + 1].data # ToolFailureText
              => heap'[br[c].session] =
                    [heap[br[c].session] EXCEPT
                        !.customer_zip_code = JsonLoads(e.data)["zip_code"]]]_vars

\* argument maps that carry an appliance_type, in and outside the lexicon
ArgsTroubleshootFridge ==
    [k \in {"appliance_type", "symptom"} |->
        IF k = "appliance_type" THEN "fridge" ELSE "won't start"]
ArgsImageFridge ==
    [k \in {"email", "appliance_type"} |->
        IF k = "email" THEN "jane@example.com" ELSE "fridge"]
ArgsAvailabilityToaster ==
    [k \in {"zip_code", "appliance_type"} |->
        IF k = "zip_code" THEN "90210" ELSE "Toaster"]

ApplianceArgMaps ==
    {JsonLoads(ArgsTroubleshoot), ArgsTroubleshootFridge, ArgsAvailability,
     ArgsAvailabilityToaster, ArgsBooking, ArgsImageFridge}

ApplianceTools == ToolNames \ {"update_customer_info"}

(* C25: for every tool that takes an appliance_type, the value handed to   *)
(* the collaborator is normalize_appliance_type(raw) when that is defined  *)
(* and the lower-cased raw string otherwise.                               *)
C25_ApplianceNormalized ==
    [][\A c \in BridgeCalls, e \in ToolEvents :
          Live(c) /\ JsonDecodes(e.data) /\ DownlinkEvent(c, e) =>
              \A n \in ApplianceTools, a \in ApplianceArgMaps,
                 out \in CollaboratorOutcomes :
                  LET r == Dispatch(n, a, heap[br[c].session], customers, out)
                      raw == a["appliance_type"]
                  IN ~r.raised =>
                        r.reached = IF normalize_appliance_type(raw) # None
                                    THEN normalize_appliance_type(raw)
                                    ELSE Lower(raw)]_vars

----------------------------------------------------------------------------
(* Key facts                                                               *)

\* the states the store or a bridge refers to
Referenced(st, b) ==
    {o \in 1..MaxObjs + 1 : \E c \in CallIds : st[c] = o \/ b[c].session = o}

NoDuplicates(seq) ==
    \A i, j \in DOMAIN seq : i # j => seq[i] # seq[j]

(* C26: key_facts of every ConversationState holds no value twice, and a   *)
(* step never reorders or removes the facts already present: the list      *)
(* stays as it is or grows by one fact at its end; a transcript whose fact *)
(* is already present leaves the list unchanged.                           *)
C26_KeyFactsUnique ==
    /\ [](\A o \in DOMAIN heap : NoDuplicates(heap[o].key_facts))
    /\ [][\A o \in Referenced(sessions', br') \cap DOMAIN heap :
            /\ IsPrefix(heap[o].key_facts, heap'[o].key_facts)
            /\ Len(heap'[o].key_facts) <= Len(heap[o].key_facts) + 1]_vars
    /\ [][\A c \in BridgeCalls, e \in FactEvents :
            Live(c) /\ DownlinkEvent(c, e) =>
                LET old == heap[br[c].session].key_facts
                    new == heap'[br[c].session].key_facts
                IN IF UserSaid(e.data) \in Range(old)
                   THEN new = old
                   ELSE new = Append(old, UserSaid(e.data))]_vars

\* three transcripts were read and one of them repeated a fact
C26_Witness ==
    \E c \in BridgeCalls :
        /\ br[c].pc = "pumping" /\ br[c].ndown = 3
        /\ Len(heap[br[c].session].key_facts) = 2
        /\ heap[br[c].session].key_facts[1] = UserSaid("it is loud")

(* C27: every key fact the bridge appends for a completed user             *)
(* transcription starts with "User said: " and is at most 212 characters   *)
(* long, whatever the length of the transcript: it is "User said: "        *)
(* followed by the first 200 characters of the transcript.                 *)
C27_FactLength ==
    /\ [](\A o \in DOMAIN heap : \A i \in DOMAIN heap[o].key_facts :
            /\ IsPrefix("User said: ", heap[o].key_facts[i])
            /\ Len(heap[o].key_facts[i]) <= 212)
    /\ [][\A c \in BridgeCalls, e \in FactEvents :
            Live(c) /\ DownlinkEvent(c, e) =>
                \E i \in DOMAIN heap'[br[c].session].key_facts :
                    LET fact == heap'[br[c].session].key_facts[i]
                        n == IF Len(e.data) < 200 THEN Len(e.data) ELSE 200
                    IN /\ Len(fact) = 11 + n
                       /\ SubSeq(fact, 1, 11) = "User said: "
                       /\ SubSeq(fact, 12, 11 + n) = SubSeq(e.data, 1, n)]_vars

\* the fact of a transcript of more than 200 characters has been stored
C27_Witness ==
    \E c \in BridgeCalls :
        /\ br[c].session # 0
        /\ \E i \in DOMAIN heap[br[c].session].key_facts :
              Len(heap[br[c].session].key_facts[i]) = 211

----------------------------------------------------------------------------
(* The store under concurrent callers                                      *)

(* C28: the dict returned by active() is a point-in-time copy: a later     *)
(* create, update, end or transition changes neither the call ids in it    *)
(* nor the phase, turn_count and key_facts seen through it.                *)
C28_SnapshotIsCopy ==
    [][lastOp'.op # "active" =>
          /\ snapshot' = snapshot
          /\ \A c \in CallIds :
                snapshot[c] # 0 =>
                    /\ heap'[snapshot[c]].phase = heap[snapshot[c]].phase
                    /\ heap'[snapshot[c]].turn_count = heap[snapshot[c]].turn_count
                    /\ heap'[snapshot[c]].key_facts = heap[snapshot[c]].key_facts]_vars

\* the state o with one more turn and the clock's reading, nothing else
Bumped(hp, o, t) ==
    [hp EXCEPT ![o] = [f \in DOMAIN @ |->
                          CASE f = "turn_count" -> @[f] + 1
                            [] f = "last_interaction" -> t
                            [] OTHER -> @[f]]]

Stored(st, call_sid, o) ==
    [c \in DOMAIN st |-> IF c = call_sid THEN o ELSE st[c]]

(* C22: the store operations of concurrently running webhook handlers and  *)
(* bridges take effect one at a time: every step of every interleaving is  *)
(* one handler's operations applied to the store as it is, with the return *)
(* value and the result of a sequential dictionary: create stores a fresh  *)
(* state under the call id and returns it, get returns the entry, update   *)
(* bumps and stores the state it is given, end removes and returns the     *)
(* entry, transition sets the phase of the entry and updates it, active    *)
(* returns the current map.                                                *)
C22_StoreSerializable ==
    [][LET op == lastOp'.op
           c == lastOp'.call
           ret == lastOp'.ret
           kept(o) == heap'[o] = heap[o]
           others(o) == \A q \in Referenced(sessions, br) \ {o} : kept(q)
       IN CASE op = "incoming_call" ->
                 /\ ret = Len(heap) + 1 /\ Len(heap') = ret
                 /\ heap'[ret].call_sid = c /\ heap'[ret].turn_count = 0
                 /\ heap'[ret].phase = "greeting"
                 /\ sessions' = Stored(sessions, c, ret)
                 /\ \A q \in Referenced(sessions', br) \ {ret} : kept(q)
            [] op \in {"call_status", "stream_end"} ->
                 /\ ret = sessions[c]
                 /\ sessions' = Stored(sessions, c, 0)
                 /\ \A q \in Referenced(sessions', br') : kept(q)
            [] op = "context" ->
                 /\ ret = sessions[c]
                 /\ IF ret = 0 THEN UNCHANGED <<sessions, heap>>
                    ELSE /\ sessions' = Stored(sessions, c, ret)
                         /\ heap' = Bumped(heap, ret, now)
            [] op = "transition" ->
                 /\ ret = sessions[c]
                 /\ IF ret = 0 THEN UNCHANGED <<sessions, heap>>
                    ELSE /\ sessions' = Stored(sessions, c, ret)
                         /\ heap'[ret].phase \in TransitionTargets
                         /\ heap'[ret].turn_count = heap[ret].turn_count + 1
                         /\ others(ret)
            [] op = "active" ->
                 /\ snapshot' = sessions
                 /\ UNCHANGED <<sessions, heap>>
            [] op = "accept" ->
                 /\ ret = sessions[c] /\ br'[c].session = ret
                 /\ UNCHANGED <<sessions, heap>>
            [] op = "cleanup" ->
                 /\ br[c].session # 0
                 /\ sessions' = Stored(sessions, c, br[c].session)
                 /\ heap' = Bumped(heap, br[c].session, now)
            [] OTHER -> FALSE]_vars

\* a bridge has stored its state again over the state a later create put
\* under the call id, while the dict of an earlier active() is still held
C22_Witness ==
    \E c \in BridgeCalls :
        /\ lastOp.op = "cleanup" /\ lastOp.call = c
        /\ lastOp.ret # 0 /\ lastOp.ret # br[c].session
        /\ sessions[c] = br[c].session
        /\ snapshot[c] # 0

(* C30: update(state) increases turn_count of the state by exactly one,    *)
(* sets last_interaction to the clock's reading and stores the state under *)
(* its call id; no other field of the state, no other state and no other   *)
(* call's entry changes.                                                   *)
C30_UpdateBumpsAndStores ==
    /\ [](\A o \in Referenced(sessions, br) :
            LET u == update_session(heap, sessions, o, now)
            IN /\ u.heap = Bumped(heap, o, now)
               /\ u.sessions = Stored(sessions, heap[o].call_sid, o))
    /\ [][\A c \in CallIds :
            add_session_context(c, {}) /\ sessions[c] # 0 =>
                /\ heap' = Bumped(heap, sessions[c], now)
                /\ sessions' = sessions]_vars
    /\ [][\A c \in BridgeCalls :
            DialFail(c) =>
                /\ heap' = Bumped(heap, br[c].session, now)
                /\ sessions' = Stored(sessions, c, br[c].session)]_vars

\* an update has stored a state under its call id while the other call
\* has its own entry
C30_Witness ==
    \E c \in BridgeCalls, d \in CallIds :
        /\ c # d /\ sessions[d] # 0
        /\ lastOp.op = "cleanup" /\ lastOp.call = c /\ lastOp.ret = 0
        /\ sessions[c] = br[c].session
        /\ heap[sessions[c]].turn_count > 0

----------------------------------------------------------------------------
(* Two calls                                                               *)

\* everything that belongs to call b: its entry in the store, the state
\* under that entry, its bridge with the state it holds, its sockets
Owned(st, hp, b, logs, c) ==
    <<st[c], IF st[c] # 0 THEN hp[st[c]] ELSE None,
      b[c], IF b[c].session # 0 THEN hp[b[c].session] ELSE None,
      logs[1][c], logs[2][c], logs[3][c], logs[4][c]>>

(* C29: for two distinct call ids A and B, no webhook, bridge event, tool  *)
(* call or store operation processed for A changes a field of B's state,   *)
(* removes B from the store or touches B's bridge and sockets.             *)
C29_CrossCallIsolation ==
    [][\A a, b \in CallIds :
          a # b /\ lastOp'.call = a =>
              Owned(sessions', heap', br', logVars', b)
                  = Owned(sessions, heap, br, logVars, b)]_vars

\* both calls are live with a state of their own for the same customer, and
\* a tool call of one of them has just changed its state
C29_Witness ==
    \E a, b \in CallIds :
        /\ a # b /\ Live(a) /\ Live(b)
        /\ sessions[a] # 0 /\ sessions[b] # 0 /\ sessions[a] # sessions[b]
        /\ lastOp.op = "downlink" /\ lastOp.call = a
        /\ heap[sessions[a]].customer_zip_code = "90210"
        /\ heap[sessions[b]].customer_zip_code = None
        /\ heap[sessions[a]].customer_id = heap[sessions[b]].customer_id

----------------------------------------------------------------------------
(* update_customer_info                                                    *)

(* C31: update_customer_info with any subset of name, email, zip_code and  *)
(* address records every provided field into the scheduling fields of the  *)
(* state, for every live state with or without a customer id, and leaves   *)
(* the fields not provided unchanged.                                      *)
C31_UpdateRecordsFields ==
    [][\A c \in BridgeCalls, u \in UpdateMaps, out \in {"ok", "error"} :
          UpdateCustomerInfo(c, u, out) =>
              \A k \in UpdateFields :
                  heap'[sessions[c]][SchedulingField(k)] =
                      IF k \in DOMAIN u THEN u[k]
                      ELSE heap[sessions[c]][SchedulingField(k)]]_vars

----------------------------------------------------------------------------
(* Scheduling service                                                      *)

TerminalAppointmentStatuses == {"completed", "cancelled"}

(* C32: cancel_appointment on an appointment whose status is completed or  *)
(* cancelled returns failure with a non-empty error text and changes       *)
(* neither the appointment's status nor the availability of its slot; a    *)
(* second cancel of an appointment fails.                                  *)
C32_CancelTerminalFails ==
    /\ [](\A a \in DOMAIN db.appointments :
            LET first == cancel_appointment(db, a)
                second == cancel_appointment(first.db, a)
            IN first.success =>
                  /\ ~second.success /\ second.error \notin {None, ""}
                  /\ second.db = first.db)
    /\ [][\A a \in 1..(MaxAppointments + 1) :
            /\ a \in DOMAIN db.appointments
            /\ db.appointments[a].status \in TerminalAppointmentStatuses
            /\ CancelAppointment(a)
            => /\ lastOp'.ret = 0
               /\ lastOp'.arg \notin {None, ""}
               /\ db'.appointments = db.appointments
               /\ db'.slots = db.slots]_vars

\* an appointment booked and cancelled has been cancelled again, with its
\* slot booked by another customer in between
C32_Witness ==
    /\ lastOp.op = "cancel" /\ lastOp.ret = 0
    /\ lastOp.call \in DOMAIN db.appointments
    /\ db.appointments[lastOp.call].status = "cancelled"
    /\ lastOp.arg = "Cannot cancel appointment with status: cancelled"
    /\ \E b \in DOMAIN db.appointments :
          /\ b # lastOp.call
          /\ db.appointments[b].time_slot_id =
                db.appointments[lastOp.call].time_slot_id
          /\ db.appointments[b].status = "scheduled"
          /\ ~db.slots[db.appointments[b].time_slot_id].is_available

\* an active technician who serves the zip code and has the specialty
Serves(technician_id, zip_code, appliance_type) ==
    /\ Technicians[technician_id].is_active
    /\ zip_code \in Technicians[technician_id].zip_codes
    /\ appliance_type \in Technicians[technician_id].specialties

(* C33: get_available_slots returns only slots that are available and not  *)
(* blocked and belong to an active technician who serves the zip code and  *)
(* has the requested specialty; when no technician matches it returns the  *)
(* empty list, without an error.                                           *)
C33_AvailableSlotsMatch ==
    /\ [](\A z \in SearchZips, t \in SearchTypes, p \in TimePreferences :
            LET found == get_available_slots(db, z, t, p)
            IN /\ \A i \in found :
                     /\ db.slots[i].is_available /\ ~db.slots[i].is_blocked
                     /\ Serves(SlotCalendar[i].technician_id, z, t)
               /\ (\A k \in DOMAIN Technicians : ~Serves(k, z, t)) => found = {})
    /\ [][\A z \in SearchZips, t \in SearchTypes, p \in TimePreferences :
            GetAvailableSlots(z, t, p) =>
                /\ lastOp'.ret = Cardinality(get_available_slots(db, z, t, p))
                /\ db' = db]_vars

\* a search in 90210 for a washer after slot 1 has been booked: one slot is
\* left of the seven, the others are taken, blocked, out of the date range
\* or belong to a technician who is inactive or serves another area
C33_Witness ==
    /\ lastOp.op = "availability"
    /\ lastOp.call = "90210" /\ lastOp.arg = "washer" /\ lastOp.ret = 1
    /\ ~db.slots[1].is_available
    /\ get_available_slots(db, "90210", "washer", None) = {2}
    /\ get_available_slots(db, "90210", "refrigerator", None) = {}

\* the appointments on a slot that are not cancelled
Holding(d, i) ==
    {a \in DOMAIN d.appointments :
        /\ d.appointments[a].time_slot_id = i
        /\ d.appointments[a].status # "cancelled"}

(* C37: after any sequence of bookings and cancellations, every slot has   *)
(* at most one appointment that is not cancelled, and a slot with an       *)
(* appointment that is neither cancelled nor completed is marked           *)
(* unavailable.                                                            *)
C37_NoDoubleBooking ==
    \A i \in SlotIds :
        /\ Cardinality(Holding(db, i)) <= 1
        /\ (\E a \in Holding(db, i) : db.appointments[a].status # "completed")
              => ~db.slots[i].is_available

\* slot 1 was booked, cancelled and booked again by another customer, and a
\* further booking of it has just been refused
C37_Witness ==
    /\ lastOp.op = "book" /\ lastOp.call = 1
    /\ lastOp.arg = "This time slot is no longer available"
    /\ Cardinality({a \in DOMAIN db.appointments :
                        db.appointments[a].time_slot_id = 1}) = 2
    /\ Cardinality(Holding(db, 1)) = 1
    /\ ~db.slots[1].is_available

(* C38: a successful book_appointment on a slot makes it unavailable: no   *)
(* search returns it and a second booking of it fails; a successful        *)
(* cancel_appointment of that appointment makes the slot available and     *)
(* bookable again.                                                         *)
C38_BookCancelRoundTrip ==
    /\ [][\A k \in CustomerIds, i \in BookingSlotIds :
            BookAppointment(k, i, "washer") /\ lastOp'.arg = None =>
                /\ ~db'.slots[i].is_available
                /\ \A z \in SearchZips, t \in SearchTypes, p \in TimePreferences :
                      i \notin get_available_slots(db', z, t, p)
                /\ \A k2 \in CustomerIds :
                      /\ book_appointment(db'.slots[i], k2, i, "washer").error
                            = "This time slot is no longer available"
                      /\ book_appointment(db'.slots[i], k2, i, "washer").slot
                            = db'.slots[i]]_vars
    /\ [][\A a \in 1..(MaxAppointments + 1) :
            CancelAppointment(a) /\ lastOp'.ret = 1 =>
                LET i == db.appointments[a].time_slot_id
                IN /\ db'.slots[i].is_available
                   /\ \A k \in CustomerIds :
                         book_appointment(db'.slots[i], k, i, "washer").error = None
                   /\ \A z \in SearchZips, t \in SearchTypes, p \in TimePreferences :
                         i \in get_available_slots(db', z, t, p)
                            <=> i \in get_available_slots(
                                    [db EXCEPT !.slots[i].is_available = TRUE],
                                    z, t, p)]_vars

\* slot 1 was booked and cancelled, and has just been booked again
C38_Witness ==
    /\ lastOp.op = "book" /\ lastOp.call = 1 /\ lastOp.arg = None
    /\ lastOp.ret \in DOMAIN db.appointments
    /\ db.appointments[lastOp.ret].status = "scheduled"
    /\ \E a \in DOMAIN db.appointments :
          /\ a < lastOp.ret
          /\ db.appointments[a].time_slot_id = 1
          /\ db.appointments[a].status = "cancelled"
    /\ 1 \notin get_available_slots(db, "90210", "washer", None)

----------------------------------------------------------------------------
(* Appliance lexicon                                                       *)

(* C34: normalize_appliance is insensitive to case and to surrounding      *)
(* whitespace, maps every synonym of the lexicon to its tag ("Washing      *)
(* Machine" and "washer" to "washer", "fridge" to "refrigerator", "AC" to  *)
(* "hvac"), returns nothing for a term outside the lexicon, and is         *)
(* idempotent on its results: normalize(x) = t implies normalize(t) = t.   *)
C34_NormalizeAppliance ==
    lastOp.op = "normalize" =>
        LET x == lastOp.call
            t == lastOp.arg
        IN /\ t = normalize_appliance_type(x)
           /\ normalize_appliance_type(StrUpper(x)) = t
           /\ normalize_appliance_type(StrLower(x)) = t
           /\ normalize_appliance_type(" " \o x \o "  ") = t
           /\ \A m \in ApplianceMappings : x = m[1] => t = m[2]
           /\ x \in {"Washing Machine", "washer"} => t = "washer"
           /\ x = "fridge" => t = "refrigerator"
           /\ x = "AC" => t = "hvac"
           /\ x \in {"unknown", "toaster", ""} => t = None
           /\ t # None => normalize_appliance_type(t) = t

----------------------------------------------------------------------------
(* Customer records                                                        *)

(* C35: get_or_create_customer is idempotent per phone number: in any      *)
(* sequence of calls, two calls with the same phone return the same        *)
(* customer id, and at most one record is created for that phone.          *)
C35_GetOrCreateIdempotent ==
    /\ [](\A i, j \in DOMAIN customers :
            customers[i].phone = customers[j].phone => i = j)
    /\ [](\A p \in CallerPhones :
            LET first == get_or_create_customer(customers, p)
                second == get_or_create_customer(first.customers, p)
            IN second.id = first.id /\ second.customers = first.customers)
    /\ [][\A p \in CallerPhones :
            GetOrCreateCustomer(p) =>
                /\ customers'[lastOp'.ret].phone = p
                /\ IsPrefix(customers, customers')
                /\ Len(customers') <= Len(customers) + 1
                /\ \A i \in DOMAIN customers :
                      customers[i].phone = p =>
                          lastOp'.ret = i /\ customers' = customers]_vars
    /\ [][\A i \in DOMAIN customers :
            i \in DOMAIN customers' /\ customers'[i].phone = customers[i].phone]_vars

\* the first caller calls again after two other callers and an update of
\* their record, and gets the id of the first call
C35_Witness ==
    /\ lastOp.op = "get_or_create_customer" /\ lastOp.ret = 1
    /\ Len(customers) = 3
    /\ customers[1].phone = lastOp.call
    /\ customers[1].first_name = "Jane" /\ customers[1].zip_code = "90210"

----------------------------------------------------------------------------
(* Cancellation                                                            *)

(* C36: once the bridge has cancelled the pending pump and begun its       *)
(* cleanup, no further message is sent on the model WS or the carrier WS;  *)
(* a tool call in progress in the cancelled downlink pump has completed    *)
(* its sends before the cancellation or sends nothing more.                *)
C36_NoSendAfterCancel ==
    /\ [][\A c \in BridgeCalls :
            br[c].pc \in {"closing", "finishing"} =>
                modelSent'[c] = modelSent[c] /\ carrierSent'[c] = carrierSent[c]]_vars
    /\ [][\A c \in BridgeCalls :
            BridgeCancel(c) =>
                /\ br'[c].upl = "done" /\ br'[c].dnl = "done"
                /\ modelSent'[c] = modelSent[c] /\ carrierSent'[c] = carrierSent[c]]_vars
    /\ [](\A c \in BridgeCalls :
            br[c].pc \in {"closing", "finishing"} => ~ENABLED ToolCallEnd(c))

\* the uplink pump read `stop` while a tool call waited between its two
\* sends: the pump has been cancelled with the function_call_output sent
\* and the response.create not
C36_Witness ==
    \E c \in BridgeCalls :
        /\ br[c].pc = "closing"
        /\ lastOp.op = "cancel"
        /\ modelSent[c] # <<>>
        /\ modelSent[c][Len(modelSent[c])].item = "function_call_output"
        /\ carrierSent[c] # <<>>

----------------------------------------------------------------------------
(* Stream ids                                                              *)

(* C39: the bridge sends nothing on the carrier WS before it has read a    *)
(* `start` frame, and every media message it sends carries the streamSid   *)
(* of the most recent `start` frame read by the uplink pump, never an      *)
(* empty or missing one.                                                   *)
C39_StreamSid ==
    /\ [][\A c \in BridgeCalls :
            carrierSent'[c] # carrierSent[c] /\ carrierSent'[c] # <<>> =>
                /\ br[c].stream_sid \notin {None, ""}
                /\ Len(carrierSent'[c]) = Len(carrierSent[c]) + 1
                /\ SubSeq(carrierSent'[c], 1, Len(carrierSent[c])) = carrierSent[c]
                /\ LET m == carrierSent'[c][Len(carrierSent'[c])]
                   IN /\ m.event = "media"
                      /\ m.streamSid = br[c].stream_sid
                      /\ m.payload \in Deltas \ {""}]_vars
    /\ [][\A c \in BridgeCalls, f \in SidFrames :
            UplinkFrame(c, f) /\ f.event = "start" =>
                br'[c].stream_sid = f.streamSid]_vars
    /\ [][\A c \in BridgeCalls :
            br[c].pc = "pumping" /\ br'[c].pc = "pumping"
            /\ br'[c].stream_sid # br[c].stream_sid =>
                \E f \in SidFrames : f.event = "start" /\ UplinkFrame(c, f)]_vars
    /\ [](\A c \in BridgeCalls :
            br[c].pc \in {"dialing", "pumping"} /\ br[c].nup = 0 =>
                br[c].stream_sid = None /\ carrierSent[c] = <<>>)

\* audio was forwarded under the first stream id, a second `start` frame
\* was read, and the next audio went out under the second id
C39_Witness ==
    \E c \in BridgeCalls :
        /\ Len(carrierSent[c]) = 2
        /\ carrierSent[c][1].streamSid = "MZ1"
        /\ carrierSent[c][2].streamSid = "MZ2"
        /\ br[c].stream_sid = "MZ2"

----------------------------------------------------------------------------
(* Bridge liveness                                                         *)

\* the uplink pump has read `stop`, or one of the two sockets has closed
Ending(c) ==
    /\ br[c].pc = "pumping"
    /\ br[c].upl = "done" \/ br[c].carrier_ws = "closed" \/ br[c].openai_ws = "closed"

\* handle_twilio_connection has returned
Returned(c) == br[c].pc \in {"finishing", "idle"}

(* C40: under fair scheduling, once the carrier has sent `stop` or either  *)
(* socket has closed, handle_twilio_connection eventually returns, and     *)
(* when it has returned neither pump of the call is still running.         *)
C40_BridgeTerminates ==
    \A c \in BridgeCalls :
        /\ Ending(c) ~> br[c].pc = "finishing"
        /\ [](Returned(c) => br[c].upl \notin {"run"} /\ br[c].dnl \notin {"run", "tool"})

\* the handler has returned after the model WS closed under a tool call
\* that was waiting between its two sends
C40_Witness ==
    \E c \in BridgeCalls :
        /\ br[c].pc = "finishing" /\ lastOp.op = "cleanup"
        /\ br[c].upl = "done" /\ br[c].dnl = "done"
        /\ br[c].carrier_ws = "open"
        /\ downRead[c] # <<>>
        /\ modelSent[c] # <<>>
        /\ modelSent[c][Len(modelSent[c])].item = "function_call_output"

====
